---- MODULE Spec2Model ----
(***************************************************************************)
(* A model of issuefs (src/issuefs.py): the QueryFolder entity with its    *)
(* YAML codec and refresh algorithm, and the IssueFS callback engine with  *)
(* the write -> flush commit protocol.                                     *)
(*                                                                         *)
(* Representation.                                                         *)
(*  - A path is the sequence of its components: "/" is <<>>,               *)
(*    "/f/config.yaml" is <<"f", "config.yaml">>.  Python's None is "".    *)
(*  - A write buffer is a sequence of units.  One unit stands for one      *)
(*    chunk of bytes of a config.yaml text: a top-level "key: value" entry *)
(*    of the YAML mapping, a NUL byte, a byte that is not UTF-8, a chunk   *)
(*    of YAML that does not scan, a bare scalar, or the mapping without    *)
(*    entries "{}".  Offsets and lengths count units.                      *)
(*  - A backend configuration dict is seen through the keys the code       *)
(*    reads: its query, its repo and its issues list; bad = TRUE stands    *)
(*    for an attribute that holds something that is no dict.               *)
(*  - An issue record is its key and the tracker that returned it.         *)
(*  - The trackers are the environment: every refresh draws the outcome of *)
(*    each search and get_issue call from a bounded set.                   *)
(*  - The persistent store file is its parse: absent, unreadable, or the   *)
(*    mapping mount path -> folder name -> persisted fields.  A process    *)
(*    is one session: __init__ starts it, the atexit save ends it.         *)
(*  - version.txt is one unit per probed tracker, carrying what its probe  *)
(*    found at mount time.  The st_size of getattr counts bytes: a unit is *)
(*    as wide as the text it stands for.                                   *)
(*  - Concurrency is interleaving: two editors each run their script of    *)
(*    callbacks (editors), two processes each run _save_config as the      *)
(*    steps read, open, dump (savers).                                     *)
(***************************************************************************)
EXTENDS Integers, Sequences, FiniteSets, TLC

VARIABLES
    folders,        \* IssueFS.folders: folder name -> QueryFolder
    file_handles,   \* IssueFS.file_handles: path -> write buffer
    clients,        \* the registry: the trackers that have a client
    config_file,    \* the persistent store file (IssueFS.config_file)
    mountpoint,     \* IssueFS.mountpoint of the current process
    running,        \* is a process mounted?
    version_info,   \* IssueFS.version_info: tracker -> probe result
    editors,        \* the editors at work on a config.yaml: where each is
    savers,         \* the processes inside _save_config: where each is
    last            \* what the most recent callback did (observer)

vars == <<folders, file_handles, clients, config_file, mountpoint, running,
          version_info, editors, savers, last>>

\* What no filesystem callback touches.
session == <<config_file, mountpoint, running, version_info, savers>>

\* ------------------------------------------------------------------ bounds
\* Longest write buffer, in units.
MaxBuf == 3

\* ------------------------------------------------------------------ basics
TrackerSet == {"jira", "github", "bugzilla"}

RECURSIVE SeqToSet(_)
SeqToSet(s) == IF s = <<>> THEN {} ELSE {Head(s)} \cup SeqToSet(Tail(s))

\* s[lo+1 .. hi] in Python's s[lo:hi], clipped to the sequence.
Slice(s, lo, hi) ==
    LET h == IF hi < Len(s) THEN hi ELSE Len(s)
    IN  IF lo >= h THEN <<>> ELSE SubSeq(s, lo + 1, h)

\* ------------------------------------------------------------ QueryFolder
DefaultConfig == [bad |-> FALSE, q |-> "", repo |-> "", ids |-> <<>>]

NewQueryFolder ==
    [enabled |-> FALSE, persistent |-> FALSE,
     jira_config |-> DefaultConfig,
     github_config |-> DefaultConfig,
     bugzilla_config |-> DefaultConfig,
     issues |-> <<>>]

ConfigOf(folder, t) ==
    CASE t = "jira" -> folder.jira_config
      [] t = "github" -> folder.github_config
      [] OTHER -> folder.bugzilla_config

\* The configuration fields of a folder (everything but the cache).
ConfigFields(folder) ==
    [enabled |-> folder.enabled, persistent |-> folder.persistent,
     jira_config |-> folder.jira_config,
     github_config |-> folder.github_config,
     bugzilla_config |-> folder.bugzilla_config]

\* ------------------------------------------------------- units of a buffer
UBool(k, b) ==
    [k |-> k, b |-> b, shape |-> "", q |-> "", repo |-> "",
     idsShape |-> "", ids |-> <<>>]

\* The entry "k: <value>" for a tracker.  shape is what the value is:
\*   "notlist"   not a list (a string, a number, a mapping)
\*   "emptylist" an empty list (or null)
\*   "nonmap"    a list whose first element is not a mapping
\*   "map"       a list whose first element is a mapping
\* and for "map", q and repo are .get(key, '') of the mapping and idsShape
\* tells whether 'issues' is "absent", a "list" or "notlist".
UBlock(k, shape, q, repo, idsShape, ids) ==
    [k |-> k, b |-> FALSE, shape |-> shape, q |-> q, repo |-> repo,
     idsShape |-> idsShape, ids |-> ids]

URaw(k) == UBool(k, FALSE)

NUL == URaw("nul")

BadUtf8 == URaw("badutf8")

Scalar == URaw("scalar")

\* The text "{}": a mapping without entries.
EmptyMap == URaw("emptymap")

Zeros(n) == [i \in 1..n |-> NUL]

\* ------------------------------------------------------------- ConfigCodec
\* The block of one tracker as to_yaml dumps it: a one-element list.
DumpBlock(t, cfg) ==
    IF cfg.bad
    THEN UBlock(t, "nonmap", "", "", "", <<>>)
    ELSE UBlock(t, "map", cfg.q, cfg.repo, "list", cfg.ids)

to_yaml(folder) ==
    << UBool("enabled", folder.enabled),
       UBool("persistent", folder.persistent),
       DumpBlock("jira", folder.jira_config),
       DumpBlock("github", folder.github_config),
       DumpBlock("bugzilla", folder.bugzilla_config) >>

\* bytes(...).decode('utf-8') succeeds
Utf8Ok(buf) == \A i \in 1..Len(buf) : buf[i].k # "badutf8"

\* yaml.safe_load on the decoded text: the kind of value it returns, or
\* "YAMLError".  A NUL is not a YAML character; a bare scalar among mapping
\* entries does not scan, and neither does anything next to "{}".
safe_load(text) ==
    LET ks == {text[i].k : i \in 1..Len(text)}
    IN  IF "nul" \in ks THEN "YAMLError"
        ELSE IF text = <<>> THEN "none"
        ELSE IF text = <<EmptyMap>> THEN "emptymap"
        ELSE IF "emptymap" \in ks THEN "YAMLError"
        ELSE IF ks = {"scalar"} THEN "scalar"
        ELSE IF "scalar" \in ks THEN "YAMLError"
        ELSE "map"

\* Does the mapping have the key?  (later entries replace earlier ones)
HasKey(text, k) == \E i \in 1..Len(text) : text[i].k = k

Entry(text, k) ==
    LET i == CHOOSE j \in 1..Len(text) :
                 /\ text[j].k = k
                 /\ \A m \in (j + 1)..Len(text) : text[m].k # k
    IN  text[i]

\* data.get(k, False) for the two flags
GetFlag(text, k) == IF HasKey(text, k) THEN Entry(text, k).b ELSE FALSE

\* One "Load <tracker> config" block of from_yaml: the configuration it
\* assigns, and whether the fix-up of 'issues' raises TypeError after the
\* assignment.
LoadBlock(text, t) ==
    IF ~HasKey(text, t) THEN [cfg |-> DefaultConfig, raised |-> FALSE]
    ELSE LET e == Entry(text, t)
         IN  CASE e.shape = "map" ->
                    [cfg |-> [bad |-> FALSE, q |-> e.q, repo |-> e.repo,
                              ids |-> IF e.idsShape = "list"
                                      THEN e.ids ELSE <<>>],
                     raised |-> FALSE]
               [] e.shape = "nonmap" ->
                    [cfg |-> [bad |-> TRUE, q |-> "", repo |-> "",
                              ids |-> <<>>],
                     raised |-> TRUE]
               [] OTHER -> [cfg |-> DefaultConfig, raised |-> FALSE]

\* Variant: a YAML error resets the folder to the default configuration.
from_yaml_reset(folder, text) ==
    LET kind == safe_load(text)
        j == LoadBlock(text, "jira")
        g == LoadBlock(text, "github")
        b == LoadBlock(text, "bugzilla")
        f4 == [folder EXCEPT !.enabled = GetFlag(text, "enabled"),
                             !.persistent = GetFlag(text, "persistent"),
                             !.jira_config = j.cfg,
                             !.github_config = g.cfg,
                             !.bugzilla_config = b.cfg]
    IN  CASE kind = "YAMLError" ->
                [folder |-> [NewQueryFolder EXCEPT !.issues = folder.issues],
                 exc |-> ""]
          [] kind \in {"none", "emptymap"} -> [folder |-> folder, exc |-> ""]
          [] kind = "scalar" -> [folder |-> folder, exc |-> "AttributeError"]
          [] OTHER ->
                [folder |-> f4,
                 exc |-> IF j.raised \/ g.raised \/ b.raised
                         THEN "TypeError" ELSE ""]

\* QueryFolder.from_yaml: the folder afterwards and the exception that
\* leaves the method ("" when it returns).  `if data:` skips the assignments
\* for None and for the empty mapping alike.
from_yaml(folder, text) ==
    LET kind == safe_load(text)
        f1 == [folder EXCEPT !.enabled = GetFlag(text, "enabled"),
                             !.persistent = GetFlag(text, "persistent")]
        j == LoadBlock(text, "jira")
        f2 == [f1 EXCEPT !.jira_config = j.cfg]
        g == LoadBlock(text, "github")
        f3 == [f2 EXCEPT !.github_config = g.cfg]
        b == LoadBlock(text, "bugzilla")
        f4 == [f3 EXCEPT !.bugzilla_config = b.cfg]
    IN  CASE kind = "YAMLError" -> [folder |-> folder, exc |-> ""]
          [] kind \in {"none", "emptymap"} -> [folder |-> folder, exc |-> ""]
          [] kind = "scalar" -> [folder |-> folder, exc |-> "AttributeError"]
          [] OTHER ->
                IF j.raised THEN [folder |-> f2, exc |-> "TypeError"]
                ELSE IF g.raised THEN [folder |-> f3, exc |-> "TypeError"]
                ELSE IF b.raised THEN [folder |-> f4, exc |-> "TypeError"]
                ELSE [folder |-> f4, exc |-> ""]

\* ------------------------------------------------- trackers (environment)
\* IssueInfo_Jira keeps the server's key; IssueInfo_GitHub and
\* IssueInfo_Bugzilla qualify the native number.
IssueKey(t, raw) ==
    CASE t = "jira" -> raw
      [] t = "github" -> "GITHUB-" \o raw
      [] OTHER -> "BUGZILLA-" \o raw

Issue(t, raw) == [key |-> IssueKey(t, raw), src |-> t]

\* What the trackers answer during one refresh: per tracker, search raises
\* or returns the listed native identifiers; per identifier, get_issue
\* returns the record ("ok"), returns None ("none") or raises ("raise").
SearchOutcomes(t) ==
    CASE t = "jira" ->
            { [raised |-> TRUE, items |-> <<>>],
              [raised |-> FALSE, items |-> <<"A", "B">>],
              [raised |-> FALSE, items |-> <<"GITHUB-1">>] }
      [] t = "github" ->
            { [raised |-> TRUE, items |-> <<>>],
              [raised |-> FALSE, items |-> <<"1">>],
              [raised |-> FALSE, items |-> <<"2", "1", "2">>] }
      [] OTHER ->
            { [raised |-> TRUE, items |-> <<>>],
              [raised |-> FALSE, items |-> <<"1">>] }

IdUniverse == {"1", "2"}

Worlds ==
    { [search |-> [t \in TrackerSet |->
                     CASE t = "jira" -> j [] t = "github" -> g [] OTHER -> b],
       get |-> gt] :
        j \in SearchOutcomes("jira"), g \in SearchOutcomes("github"),
        b \in SearchOutcomes("bugzilla"),
        gt \in [IdUniverse -> {"ok", "none", "raise"}] }

\* The answers a refresh of the folder can read: a tracker that is not
\* searched, or an identifier that no configuration lists, answers in one
\* fixed way.
Searched(folder, clients_dict, t) ==
    /\ t \in clients_dict
    /\ ~ConfigOf(folder, t).bad
    /\ ConfigOf(folder, t).q # ""

Listed(folder, clients_dict, id) ==
    \E t \in clients_dict :
        /\ ~ConfigOf(folder, t).bad
        /\ id \in SeqToSet(ConfigOf(folder, t).ids)

SearchChoices(folder, clients_dict, t) ==
    IF folder.enabled /\ Searched(folder, clients_dict, t)
    THEN SearchOutcomes(t)
    ELSE {[raised |-> TRUE, items |-> <<>>]}

GetChoices(folder, clients_dict) ==
    { gt \in [IdUniverse -> {"ok", "none", "raise"}] :
        \A id \in IdUniverse :
            ~(folder.enabled /\ Listed(folder, clients_dict, id))
                => gt[id] = "ok" }

WorldsFor(folder, clients_dict) ==
    { [search |-> [t \in TrackerSet |->
                     CASE t = "jira" -> j [] t = "github" -> g [] OTHER -> b],
       get |-> gt] :
        j \in SearchChoices(folder, clients_dict, "jira"),
        g \in SearchChoices(folder, clients_dict, "github"),
        b \in SearchChoices(folder, clients_dict, "bugzilla"),
        gt \in GetChoices(folder, clients_dict) }

Call(t, method, arg, outcome, keys) ==
    [tracker |-> t, method |-> method, arg |-> arg, outcome |-> outcome,
     keys |-> keys]

\* ---------------------------------------------- QueryFolder.update_issues
\* Variant: the loop over a search result stops after the first record.
AppendFirst(acc, t, items) ==
    IF items = <<>> THEN acc
    ELSE LET issue == Issue(t, Head(items))
         IN  IF issue.key \notin acc.seen
             THEN [acc EXCEPT !.issues = Append(@, issue),
                              !.seen = @ \cup {issue.key}]
             ELSE acc

\* The loop over a search result: append every record whose key is unseen.
RECURSIVE AppendUnseen(_, _, _)
AppendUnseen(acc, t, items) ==
    IF items = <<>> THEN acc
    ELSE LET issue == Issue(t, Head(items))
             acc2 == IF issue.key \notin acc.seen
                     THEN [acc EXCEPT !.issues = Append(@, issue),
                                      !.seen = @ \cup {issue.key}]
                     ELSE acc
         IN  AppendUnseen(acc2, t, Tail(items))

\* "Fetch issues from query" for one tracker.
SearchStep(acc, t, cfg, w) ==
    LET wanted == IF t = "github" THEN cfg.q # "" /\ cfg.repo # ""
                                  ELSE cfg.q # ""
        out == w.search[t]
        keys == [i \in 1..Len(out.items) |-> IssueKey(t, out.items[i])]
    IN  IF ~wanted THEN acc
        ELSE IF out.raised
        THEN [acc EXCEPT !.calls =
                  Append(@, Call(t, "search", cfg.q, "raise", <<>>))]
        ELSE AppendUnseen(
                [acc EXCEPT !.calls =
                     Append(@, Call(t, "search", cfg.q, "ok", keys))],
                t, out.items)

\* "Fetch explicitly specified issues" for one tracker: the identifier as
\* written in the configuration is looked up in seen_keys, and a fetched
\* record is appended.
RECURSIVE FetchIds(_, _, _, _, _)
FetchIds(acc, t, cfg, ids, w) ==
    IF ids = <<>> THEN acc
    ELSE LET issue_id == Head(ids)
             res == w.get[issue_id]
             acc2 ==
                 IF issue_id \in acc.seen THEN acc
                 ELSE IF t = "github" /\ cfg.repo = "" THEN acc
                 ELSE IF res = "ok"
                 THEN [acc EXCEPT
                         !.issues = Append(@, Issue(t, issue_id)),
                         !.seen = @ \cup {IssueKey(t, issue_id)},
                         !.calls = Append(@, Call(t, "get_issue", issue_id,
                                      "ok", <<IssueKey(t, issue_id)>>))]
                 ELSE [acc EXCEPT
                         !.calls = Append(@, Call(t, "get_issue", issue_id,
                                      res, <<>>))]
         IN  FetchIds(acc2, t, cfg, Tail(ids), w)

\* Variant: a search that raises ends the work on its tracker.
TrackerStep_abort(acc, folder, t, clients_dict, w) ==
    IF t \notin clients_dict THEN acc
    ELSE LET cfg == ConfigOf(folder, t)
             searched == SearchStep(acc, t, cfg, w)
         IN  IF /\ Len(searched.calls) > Len(acc.calls)
                /\ searched.calls[Len(searched.calls)].outcome = "raise"
             THEN searched
             ELSE FetchIds(searched, t, cfg, cfg.ids, w)

\* Variant: the explicit identifiers are fetched before the search.
TrackerStep_ids_first(acc, folder, t, clients_dict, w) ==
    IF t \notin clients_dict THEN acc
    ELSE LET cfg == ConfigOf(folder, t)
         IN  SearchStep(FetchIds(acc, t, cfg, cfg.ids, w), t, cfg, w)

\* Variant: a tracker without a client is consulted like the others.
TrackerStep_unregistered(acc, folder, t, clients_dict, w) ==
    LET cfg == ConfigOf(folder, t)
    IN  FetchIds(SearchStep(acc, t, cfg, w), t, cfg, cfg.ids, w)

\* One iteration of "for tracker in tracker_configs".
TrackerStep(acc, folder, t, clients_dict, w) ==
    IF t \notin clients_dict THEN acc
    ELSE LET cfg == ConfigOf(folder, t)
         IN  FetchIds(SearchStep(acc, t, cfg, w), t, cfg, cfg.ids, w)

\* "Check if we have any valid configuration"
has_valid_config(folder) ==
    \E t \in TrackerSet :
        LET cfg == ConfigOf(folder, t)
        IN  IF t = "github"
            THEN (cfg.q # "" /\ cfg.repo # "") \/ (cfg.repo # "" /\ cfg.ids # <<>>)
            ELSE cfg.q # "" \/ cfg.ids # <<>>

\* Variant: the refresh adds to the issue list it finds.
update_issues_keep(folder, clients_dict, w) ==
    IF ~folder.enabled THEN [issues |-> <<>>, calls |-> <<>>]
    ELSE LET found == IF "issues" \in DOMAIN folder THEN folder.issues
                      ELSE <<>>
             a0 == [issues |-> found, seen |-> {}, calls |-> <<>>]
             a1 == TrackerStep(a0, folder, "jira", clients_dict, w)
             a2 == TrackerStep(a1, folder, "github", clients_dict, w)
             a3 == TrackerStep(a2, folder, "bugzilla", clients_dict, w)
         IN  [issues |-> IF has_valid_config(folder) THEN a3.issues ELSE <<>>,
              calls |-> a3.calls]

\* The issue list a refresh stores and the tracker calls it makes.
update_issues(folder, clients_dict, w) ==
    IF ~folder.enabled THEN [issues |-> <<>>, calls |-> <<>>]
    ELSE LET a0 == [issues |-> <<>>, seen |-> {}, calls |-> <<>>]
             a1 == TrackerStep(a0, folder, "jira", clients_dict, w)
             a2 == TrackerStep(a1, folder, "github", clients_dict, w)
             a3 == TrackerStep(a2, folder, "bugzilla", clients_dict, w)
         IN  [issues |-> IF has_valid_config(folder) THEN a3.issues ELSE <<>>,
              calls |-> a3.calls]

\* ------------------------------------------------------- path resolution
\* _get_folder_from_path: parts[0] of path.strip('/').split('/'), or None
_get_folder_from_path(path) == IF Len(path) > 0 THEN path[1] ELSE ""

\* _get_filename_from_path: parts[1] when there are two parts or more
_get_filename_from_path(path) == IF Len(path) >= 2 THEN path[2] ELSE ""

_is_config_file(path) == _get_filename_from_path(path) = "config.yaml"

\* ------------------------------------------------------------- the reads
\* The folder names in one fixed order (the dict's insertion order is not
\* modelled).
RECURSIVE SetToSeq(_)
SetToSeq(S) ==
    IF S = {} THEN <<>>
    ELSE LET x == CHOOSE y \in S : TRUE IN <<x>> \o SetToSeq(S \ {x})

\* Variant: the root listing is version.txt alone.
readdir_without_folders(path) ==
    IF path = <<>> THEN <<"version.txt">>
    ELSE LET folder_name == _get_folder_from_path(path)
         IN  IF folder_name # "" /\ folder_name \in DOMAIN folders
             THEN <<"config.yaml">> \o
                  [i \in 1..Len(folders[folder_name].issues) |->
                      folders[folder_name].issues[i].key \o ".txt"]
             ELSE <<>>

\* Variant: the issue files are listed newest first.
readdir_reversed(path) ==
    IF path = <<>>
    THEN <<"version.txt">> \o SetToSeq(DOMAIN folders)
    ELSE LET folder_name == _get_folder_from_path(path)
         IN  IF folder_name # "" /\ folder_name \in DOMAIN folders
             THEN LET n == Len(folders[folder_name].issues)
                  IN  <<"config.yaml">> \o
                      [i \in 1..n |->
                          folders[folder_name].issues[n + 1 - i].key
                              \o ".txt"]
             ELSE <<>>

\* IssueFS.readdir: the names it yields after "." and "..", in order.
readdir(path) ==
    IF path = <<>>
    THEN <<"version.txt">> \o SetToSeq(DOMAIN folders)
    ELSE LET folder_name == _get_folder_from_path(path)
         IN  IF folder_name # "" /\ folder_name \in DOMAIN folders
             THEN <<"config.yaml">> \o
                  [i \in 1..Len(folders[folder_name].issues) |->
                      folders[folder_name].issues[i].key \o ".txt"]
             ELSE <<>>

\* Variant: config.yaml reads back the write buffer while one is pending.
read_config_buffered(path, size, offset) ==
    LET folder_name == _get_folder_from_path(path)
    IN  IF folder_name \notin DOMAIN folders
        THEN [err |-> "ENOENT", data |-> <<>>]
        ELSE [err |-> "",
              data |-> Slice(IF path \in DOMAIN file_handles
                             THEN file_handles[path]
                             ELSE to_yaml(folders[folder_name]),
                             offset, offset + size)]

\* IssueFS.read of /<folder>/config.yaml: the slice of the dump of the live
\* configuration, or "ENOENT".
read_config(path, size, offset) ==
    LET folder_name == _get_folder_from_path(path)
    IN  IF folder_name \notin DOMAIN folders
        THEN [err |-> "ENOENT", data |-> <<>>]
        ELSE [err |-> "",
              data |-> Slice(to_yaml(folders[folder_name]), offset,
                             offset + size)]

\* --------------------------------------------------------------- observer
Did(op, path, err, calls, refreshed) ==
    [op |-> op, path |-> path, err |-> err, calls |-> calls,
     refreshed |-> refreshed]

Put(map, key, value) ==
    [x \in DOMAIN map \cup {key} |-> IF x = key THEN value ELSE map[x]]

Remove(map, key) == [x \in DOMAIN map \ {key} |-> map[x]]

\* A callback that raises before it changes anything.
Fails(op, path, err) ==
    /\ last' = Did(op, path, err, <<>>, FALSE)
    /\ UNCHANGED <<folders, file_handles, clients, session>>

\* A callback that only answers: nothing but the observer changes.
Answers(op, path, err) == Fails(op, path, err)

\* ---------------------------------------------- getattr, open, read, unlink
\* filename.endswith('.txt'), for the file names of the model.
Stems == {"A", "B", "Z", "GITHUB-1", "GITHUB-2", "BUGZILLA-1"}

endswith_txt(filename) == \E k \in Stems : filename = k \o ".txt"

\* Variant: only the first issue of the folder is looked at.
_get_issue_file_content_first(folder_name, filename) ==
    IF folder_name \notin DOMAIN folders THEN <<>>
    ELSE LET issues == folders[folder_name].issues
         IN  IF issues # <<>> /\ issues[1].key \o ".txt" = filename
             THEN <<URaw(issues[1].key)>>
             ELSE <<>>

\* _get_issue_file_content: the text of the first issue of the folder whose
\* key is the file name without ".txt", or <<>> for None.
_get_issue_file_content(folder_name, filename) ==
    IF folder_name \notin DOMAIN folders THEN <<>>
    ELSE LET issues == folders[folder_name].issues
             hits == {i \in 1..Len(issues) :
                         issues[i].key \o ".txt" = filename}
         IN  IF hits = {} THEN <<>>
             ELSE <<URaw(issues[CHOOSE i \in hits :
                                   \A j \in hits : i <= j].key)>>

\* len(content) in bytes: a unit is as wide as the text it stands for, which
\* grows with the strings it carries ("true" is shorter than "false").
RECURSIVE SumLen(_)
SumLen(strings) ==
    IF strings = <<>> THEN 0 ELSE Len(Head(strings)) + SumLen(Tail(strings))

Width(u) ==
    CASE u.k \in {"enabled", "persistent"} -> IF u.b THEN 4 ELSE 5
      [] u.k \in TrackerSet -> 1 + Len(u.q) + Len(u.repo) + SumLen(u.ids)
      [] OTHER -> 1

RECURSIVE len(_)
len(content) ==
    IF content = <<>> THEN 0 ELSE Width(Head(content)) + len(Tail(content))

\* What client.version() returns: the version of a server that answered, or
\* the error of a request that failed.
ProbeOk == [success |-> TRUE, text |-> "v1"]

ProbeFailed == [success |-> FALSE, text |-> "timeout"]

\* "Test connections for all available clients": the version_info that
\* __init__ stores, every probe answering with one of `results`.
TestConnections(clients_dict, results) == [clients_dict -> results]

\* One block of version.txt: "Version: ..." or "Error: ..." of a tracker.
UProbe(t, info) ==
    [k |-> "probe", b |-> info.success, shape |-> t, q |-> info.text,
     repo |-> "", idsShape |-> "", ids |-> <<>>]

\* Variant: version.txt lists the trackers that answered the probe.
_get_root_version_content_answered ==
    IF DOMAIN version_info = {} THEN <<URaw("noinfo")>>
    ELSE LET Block(t) == IF t \in DOMAIN version_info
                              /\ version_info[t].success
                         THEN <<UProbe(t, version_info[t])>> ELSE <<>>
         IN  Block("jira") \o Block("github") \o Block("bugzilla")
                 \o <<URaw("tested")>>

\* _get_root_version_content, encoded: "No version information available",
\* or the blocks of the probed trackers in the order jira, github, bugzilla
\* and the line "Connections tested at mount time".
_get_root_version_content ==
    IF DOMAIN version_info = {} THEN <<URaw("noinfo")>>
    ELSE LET Block(t) == IF t \in DOMAIN version_info
                         THEN <<UProbe(t, version_info[t])>> ELSE <<>>
         IN  Block("jira") \o Block("github") \o Block("bugzilla")
                 \o <<URaw("tested")>>

\* Variant: the size of config.yaml is the one it had when the folder was
\* created.
getattr_stale(path) ==
    LET folder_name == _get_folder_from_path(path)
        filename == _get_filename_from_path(path)
        Node(mode, size) == [err |-> "", mode |-> mode, size |-> size]
        NotFound == [err |-> "ENOENT", mode |-> "", size |-> 0]
    IN  IF path = <<>> THEN Node("dir", 0)
        ELSE IF path = <<"version.txt">>
        THEN Node("0444", len(_get_root_version_content))
        ELSE IF folder_name # "" /\ filename = ""
        THEN IF folder_name \in DOMAIN folders THEN Node("dir", 0)
             ELSE NotFound
        ELSE IF folder_name \notin DOMAIN folders THEN NotFound
        ELSE IF filename = "config.yaml"
        THEN Node("0644", len(to_yaml(NewQueryFolder)))
        ELSE IF /\ endswith_txt(filename)
                /\ _get_issue_file_content(folder_name, filename) # <<>>
        THEN Node("0444",
                  len(_get_issue_file_content(folder_name, filename)))
        ELSE NotFound

\* IssueFS.getattr: the error it raises, the kind of node it reports and
\* its st_size.
getattr(path) ==
    LET folder_name == _get_folder_from_path(path)
        filename == _get_filename_from_path(path)
        Node(mode, size) == [err |-> "", mode |-> mode, size |-> size]
        NotFound == [err |-> "ENOENT", mode |-> "", size |-> 0]
    IN  IF path = <<>> THEN Node("dir", 0)
        ELSE IF path = <<"version.txt">>
        THEN Node("0444", len(_get_root_version_content))
        ELSE IF folder_name # "" /\ filename = ""
        THEN IF folder_name \in DOMAIN folders THEN Node("dir", 0)
             ELSE NotFound
        ELSE IF folder_name \notin DOMAIN folders THEN NotFound
        ELSE IF filename = "config.yaml"
        THEN Node("0644", len(to_yaml(folders[folder_name])))
        ELSE IF /\ endswith_txt(filename)
                /\ _get_issue_file_content(folder_name, filename) # <<>>
        THEN Node("0444",
                  len(_get_issue_file_content(folder_name, filename)))
        ELSE NotFound

\* IssueFS.open: "" for success.
open(path) ==
    LET folder_name == _get_folder_from_path(path)
        filename == _get_filename_from_path(path)
    IN  IF path = <<"version.txt">> THEN ""
        ELSE IF folder_name = "" \/ filename = "" THEN "ENOENT"
        ELSE IF folder_name \notin DOMAIN folders THEN "ENOENT"
        ELSE IF filename = "config.yaml" \/ endswith_txt(filename) THEN ""
        ELSE "ENOENT"

\* IssueFS.read.
read(path, size, offset) ==
    LET folder_name == _get_folder_from_path(path)
        filename == _get_filename_from_path(path)
        NotFound == [err |-> "ENOENT", data |-> <<>>]
        content == _get_issue_file_content(folder_name, filename)
    IN  IF path = <<"version.txt">>
        THEN [err |-> "", data |-> Slice(_get_root_version_content, offset,
                                         offset + size)]
        ELSE IF folder_name = "" \/ filename = ""
                  \/ folder_name \notin DOMAIN folders
        THEN NotFound
        ELSE IF filename = "config.yaml" THEN read_config(path, size, offset)
        ELSE IF endswith_txt(filename) /\ content # <<>>
        THEN [err |-> "", data |-> Slice(content, offset, offset + size)]
        ELSE NotFound

\* IssueFS.unlink: always refused.
unlink(path) == "EACCES"

\* The callbacks that only answer, as steps.
Getattr(path) == Answers("getattr", path, getattr(path).err)

Readdir(path) == Answers("readdir", path, "")

Open(path) == Answers("open", path, open(path))

Read(path) ==
    \E size \in 1..MaxBuf, offset \in 0..1 :
        Answers("read", path, read(path, size, offset).err)

Unlink(path) == Answers("unlink", path, unlink(path))

\* ------------------------------------------------------ write and truncate
\* Variant: data written past the end of the buffer is appended to it.
WriteInto_append(buf, data, offset) ==
    IF offset > Len(buf) THEN buf \o data
    ELSE LET n == offset + Len(data)
             grown == IF n > Len(buf) THEN buf \o Zeros(n - Len(buf)) ELSE buf
         IN  [i \in 1..Len(grown) |->
                 IF offset < i /\ i <= n THEN data[i - offset] ELSE grown[i]]

\* The buffer after write(data, offset): zero-filled up to offset+len(data),
\* then data stored at offset.
WriteInto(buf, data, offset) ==
    LET n == offset + Len(data)
        grown == IF n > Len(buf) THEN buf \o Zeros(n - Len(buf)) ELSE buf
    IN  [i \in 1..Len(grown) |->
            IF offset < i /\ i <= n THEN data[i - offset] ELSE grown[i]]

\* The buffer after truncate(length).
Resize(buf, length) ==
    IF length < Len(buf) THEN SubSeq(buf, 1, length)
    ELSE buf \o Zeros(length - Len(buf))

\* Variant: a write is applied to the live folder at once.
write_through(path, data, offset) ==
    IF ~_is_config_file(path) THEN Fails("write", path, "EACCES")
    ELSE IF _get_folder_from_path(path) \notin DOMAIN folders
    THEN Fails("write", path, "ENOENT")
    ELSE LET buf == IF path \in DOMAIN file_handles
                    THEN file_handles[path] ELSE <<>>
             new == WriteInto(buf, data, offset)
             folder_name == _get_folder_from_path(path)
         IN  /\ file_handles' = Put(file_handles, path, new)
             /\ folders' = Put(folders, folder_name,
                               from_yaml(folders[folder_name], new).folder)
             /\ last' = Did("write", path, "", <<>>, FALSE)
             /\ UNCHANGED <<clients, session>>

write(path, data, offset) ==
    IF ~_is_config_file(path) THEN Fails("write", path, "EACCES")
    ELSE IF _get_folder_from_path(path) \notin DOMAIN folders
    THEN Fails("write", path, "ENOENT")
    ELSE LET buf == IF path \in DOMAIN file_handles
                    THEN file_handles[path] ELSE <<>>
         IN  /\ file_handles' = Put(file_handles, path,
                                    WriteInto(buf, data, offset))
             /\ last' = Did("write", path, "", <<>>, FALSE)
             /\ UNCHANGED <<folders, clients, session>>

\* Variant: truncate does not test the file name.
truncate_any(path, length) ==
    /\ file_handles' =
            Put(file_handles, path,
                IF path \notin DOMAIN file_handles THEN Zeros(length)
                ELSE Resize(file_handles[path], length))
    /\ last' = Did("truncate", path, "", <<>>, FALSE)
    /\ UNCHANGED <<folders, clients, session>>

truncate(path, length) ==
    IF ~_is_config_file(path) THEN Fails("truncate", path, "EACCES")
    ELSE IF _get_folder_from_path(path) \notin DOMAIN folders
    THEN Fails("truncate", path, "ENOENT")
    ELSE /\ file_handles' =
                Put(file_handles, path,
                    IF path \notin DOMAIN file_handles THEN Zeros(length)
                    ELSE Resize(file_handles[path], length))
         /\ last' = Did("truncate", path, "", <<>>, FALSE)
         /\ UNCHANGED <<folders, clients, session>>

\* Variant: closing the file keeps its buffer.
release_keep(path) ==
    /\ last' = Did("release", path, "", <<>>, FALSE)
    /\ UNCHANGED <<folders, file_handles, clients, session>>

\* Variant: closing the file commits its buffer.
release_commit(path) ==
    /\ file_handles' = IF path \in DOMAIN file_handles
                       THEN Remove(file_handles, path) ELSE file_handles
    /\ folders' =
          IF /\ _is_config_file(path)
             /\ _get_folder_from_path(path) \in DOMAIN folders
             /\ path \in DOMAIN file_handles
          THEN Put(folders, _get_folder_from_path(path),
                   from_yaml(folders[_get_folder_from_path(path)],
                             file_handles[path]).folder)
          ELSE folders
    /\ last' = Did("release", path, "", <<>>, FALSE)
    /\ UNCHANGED <<clients, session>>

release(path) ==
    /\ file_handles' = IF path \in DOMAIN file_handles
                       THEN Remove(file_handles, path) ELSE file_handles
    /\ last' = Did("release", path, "", <<>>, FALSE)
    /\ UNCHANGED <<folders, clients, session>>

\* ---------------------------------------------------------- mkdir, rmdir
\* Variant: mkdir replaces a folder that exists.
mkdir_overwrite(path) ==
    LET folder_name == _get_folder_from_path(path)
        filename == _get_filename_from_path(path)
    IN  IF folder_name # "" /\ filename = ""
        THEN /\ folders' = Put(folders, folder_name, NewQueryFolder)
             /\ last' = Did("mkdir", path, "", <<>>, FALSE)
             /\ UNCHANGED <<file_handles, clients, session>>
        ELSE Fails("mkdir", path, "EACCES")

mkdir(path) ==
    LET folder_name == _get_folder_from_path(path)
        filename == _get_filename_from_path(path)
    IN  IF folder_name # "" /\ filename = ""
        THEN IF folder_name \in DOMAIN folders
             THEN Fails("mkdir", path, "EEXIST")
             ELSE /\ folders' = Put(folders, folder_name, NewQueryFolder)
                  /\ last' = Did("mkdir", path, "", <<>>, FALSE)
                  /\ UNCHANGED <<file_handles, clients, session>>
        ELSE Fails("mkdir", path, "EACCES")

rmdir(path) ==
    LET folder_name == _get_folder_from_path(path)
        filename == _get_filename_from_path(path)
    IN  IF folder_name # "" /\ filename = ""
        THEN IF folder_name \in DOMAIN folders
             THEN /\ folders' = Remove(folders, folder_name)
                  /\ last' = Did("rmdir", path, "", <<>>, FALSE)
                  /\ UNCHANGED <<file_handles, clients, session>>
             ELSE Fails("rmdir", path, "ENOENT")
        ELSE Fails("rmdir", path, "EACCES")

\* ------------------------------------------------------------------ flush
\* The fields flush stores as old_* and compares with new_*.
Diffed(folder) ==
    [enabled |-> folder.enabled,
     jql |-> folder.jira_config.q,
     jira_issues |-> folder.jira_config.ids,
     github_repo |-> folder.github_config.repo,
     github_q |-> folder.github_config.q,
     github_issues |-> folder.github_config.ids,
     bugzilla_query |-> folder.bugzilla_config.q,
     bugzilla_issues |-> folder.bugzilla_config.ids]

\* Variant: only the enabled flag is compared.
config_changed_enabled_only(old, new) == old.enabled # new.enabled

config_changed(old, new) == Diffed(old) # Diffed(new)

\* has_jira_config or has_github_config or has_bugzilla_config
FlushHasConfig(folder) ==
    \/ folder.jira_config.q # "" \/ folder.jira_config.ids # <<>>
    \/ /\ folder.github_config.repo # ""
       /\ folder.github_config.q # "" \/ folder.github_config.ids # <<>>
    \/ folder.bugzilla_config.q # "" \/ folder.bugzilla_config.ids # <<>>

Outcome(folder, err, calls, refreshed) ==
    [folder |-> folder, err |-> err, calls |-> calls, refreshed |-> refreshed]

\* The body of flush under "if path in self.file_handles": the folder
\* afterwards, the exception that leaves flush ("" when it returns), the
\* tracker calls made and whether update_issues ran.
FlushOutcome(folder, buf, clients_dict, w) ==
    IF ~Utf8Ok(buf)
    THEN Outcome(folder, "UnicodeDecodeError", <<>>, FALSE)
    ELSE IF \E t \in TrackerSet : ConfigOf(folder, t).bad
    THEN Outcome(folder, "AttributeError", <<>>, FALSE)
    ELSE LET r == from_yaml(folder, buf)
             new == r.folder
         IN  IF r.exc # "" THEN Outcome(new, r.exc, <<>>, FALSE)
             ELSE IF new.enabled /\ config_changed(folder, new)
             THEN IF FlushHasConfig(new)
                  THEN LET u == update_issues(new, clients_dict, w)
                       IN  Outcome([new EXCEPT !.issues = u.issues], "",
                                   u.calls, TRUE)
                  ELSE Outcome(new, "", <<>>, FALSE)
             ELSE IF ~new.enabled \/ ~FlushHasConfig(new)
             THEN Outcome([new EXCEPT !.issues = <<>>], "", <<>>, FALSE)
             ELSE Outcome(new, "", <<>>, FALSE)

\* Does flush(path) reach the commit (a config.yaml of an existing folder
\* with a write buffer)?
Commits(path) ==
    /\ _is_config_file(path)
    /\ _get_folder_from_path(path) \in DOMAIN folders
    /\ path \in DOMAIN file_handles

\* Variant: a flush of buffered bytes brings back a folder that was removed.
flush_recreating(path) ==
    IF /\ _is_config_file(path)
       /\ path \in DOMAIN file_handles
       /\ _get_folder_from_path(path) \notin DOMAIN folders
    THEN /\ folders' = Put(folders, _get_folder_from_path(path),
                           from_yaml(NewQueryFolder, file_handles[path]).folder)
         /\ last' = Did("flush", path, "", <<>>, FALSE)
         /\ UNCHANGED <<file_handles, clients, session>>
    ELSE IF ~Commits(path)
    THEN /\ last' = Did("flush", path, "", <<>>, FALSE)
         /\ UNCHANGED <<folders, file_handles, clients, session>>
    ELSE \E w \in WorldsFor(from_yaml(folders[_get_folder_from_path(path)],
                                       file_handles[path]).folder, clients) :
            LET folder_name == _get_folder_from_path(path)
                o == FlushOutcome(folders[folder_name], file_handles[path],
                                  clients, w)
            IN  /\ folders' = Put(folders, folder_name, o.folder)
                /\ last' = Did("flush", path, o.err, o.calls, o.refreshed)
                /\ UNCHANGED <<file_handles, clients, session>>

flush(path) ==
    IF ~Commits(path)
    THEN /\ last' = Did("flush", path, "", <<>>, FALSE)
         /\ UNCHANGED <<folders, file_handles, clients, session>>
    ELSE \E w \in WorldsFor(from_yaml(folders[_get_folder_from_path(path)],
                                       file_handles[path]).folder, clients) :
            LET folder_name == _get_folder_from_path(path)
                o == FlushOutcome(folders[folder_name], file_handles[path],
                                  clients, w)
            IN  /\ folders' = Put(folders, folder_name, o.folder)
                /\ last' = Did("flush", path, o.err, o.calls, o.refreshed)
                /\ UNCHANGED <<file_handles, clients, session>>

\* ------------------------------------------------------------ _load_config
\* One folder of the store's section for this mount point: its fields are
\* copied and, when it is enabled, update_issues runs.
LoadFolder(config, clients_dict, w) ==
    LET folder == [enabled |-> config.enabled,
                   persistent |-> config.persistent,
                   jira_config |-> config.jira_config,
                   github_config |-> config.github_config,
                   bugzilla_config |-> config.bugzilla_config,
                   issues |-> <<>>]
    IN  IF folder.enabled
        THEN [folder EXCEPT !.issues = update_issues(folder, clients_dict, w).issues]
        ELSE folder

\* The folders the loop reaches.  A persisted backend config that is no
\* dict (a scalar such as foo) makes the 'issues' fix-up raise TypeError,
\* which `except Exception` catches: that folder and those after it in the
\* section are not loaded.  The order of the section is not modelled, so any
\* set of well-formed folders can be the ones that came before.
LoadRaises(config) ==
    config.jira_config.bad \/ config.github_config.bad
        \/ config.bugzilla_config.bad

LoadableSets(section) ==
    LET good == {name \in DOMAIN section : ~LoadRaises(section[name])}
    IN  IF good = DOMAIN section THEN {good} ELSE SUBSET good

\* The loop of _load_config over folders_config, reaching `loaded`.
_load_config(section, loaded, clients_dict, w) ==
    [name \in loaded |-> LoadFolder(section[name], clients_dict, w)]

\* The tracker calls of that loop: those of update_issues for every enabled
\* folder it reaches ("Fetch issues if enabled").
RECURSIVE LoadCalls(_, _, _, _)
LoadCalls(section, names, clients_dict, w) ==
    IF names = <<>> THEN <<>>
    ELSE LET config == section[Head(names)]
             calls == IF config.enabled
                      THEN update_issues(config, clients_dict, w).calls
                      ELSE <<>>
         IN  calls \o LoadCalls(section, Tail(names), clients_dict, w)

\* -------------------------------------------------------- persistent store
StoreFile(kind, mountpoints) == [kind |-> kind, mountpoints |-> mountpoints]

\* _initialize_config_file: the header and `mountpoints: {}`.
_initialize_config_file == StoreFile("ok", <<>>)

\* Variant: without a section of its own, a mount point loads the folders of
\* some other section.
FoldersConfig_any(file, mount) ==
    IF file.kind # "ok" THEN <<>>
    ELSE IF mount \in DOMAIN file.mountpoints THEN file.mountpoints[mount]
    ELSE IF DOMAIN file.mountpoints # {}
    THEN file.mountpoints[CHOOSE m \in DOMAIN file.mountpoints : TRUE]
    ELSE <<>>

\* folders_config of _load_config: the section of this mount point, empty
\* when the file is missing, does not parse or has no such section.
FoldersConfig(file, mount) ==
    IF file.kind # "ok" THEN <<>>
    ELSE IF mount \in DOMAIN file.mountpoints THEN file.mountpoints[mount]
    ELSE <<>>

\* persistent_folders of _save_config.
persistent_folders(folder_map) ==
    [name \in {n \in DOMAIN folder_map : folder_map[n].persistent} |->
        ConfigFields(folder_map[name])]

\* Variant: the rewritten store holds the section of this mount point alone.
_save_config_fresh(file, mount, folder_map) ==
    IF DOMAIN persistent_folders(folder_map) = {} THEN file
    ELSE StoreFile("ok", [m \in {mount} |-> persistent_folders(folder_map)])

\* The store file after _save_config.
_save_config(file, mount, folder_map) ==
    IF DOMAIN persistent_folders(folder_map) = {} THEN file
    ELSE LET data == IF file.kind = "ok" THEN file.mountpoints ELSE <<>>
         IN  StoreFile("ok", Put(data, mount, persistent_folders(folder_map)))

\* _save_config step by step, as concurrent processes run it.
\* "Load existing config or create new one": the mountpoints the process
\* holds after reading the store.
save_read(file) == IF file.kind = "ok" THEN file.mountpoints ELSE <<>>

\* open(self.config_file, 'w'): the store is empty until the dump.
save_open == StoreFile("empty", <<>>)

\* Variant: the dump holds the section of the writing process alone.
save_dump_own(data, mount, folder_map) ==
    StoreFile("ok", [m \in {mount} |-> persistent_folders(folder_map)])

\* "Update this mountpoint's configuration" and the dump of the data read.
save_dump(data, mount, folder_map) ==
    StoreFile("ok", Put(data, mount, persistent_folders(folder_map)))

\* The other processes that are between their read and their dump.
MidSave(mount) ==
    {m \in DOMAIN savers \ {mount} : savers[m].pc \in {"read", "opened"}}

\* One step of the atexit handler of the process mounted at `mount`: it
\* reads the store (or returns when no folder is persistent), opens it for
\* writing, dumps.  `overlapped` records that another process was between
\* its read and its dump at some point of this save.
SaverStep(mount) ==
    LET p == savers[mount]
        Meet(sv) == [m \in DOMAIN sv |->
                        IF m \in MidSave(mount) \cup {mount}
                              /\ MidSave(mount) # {}
                        THEN [sv[m] EXCEPT !.overlapped = TRUE] ELSE sv[m]]
    IN  /\ \/ /\ p.pc = "exit"
              /\ DOMAIN persistent_folders(p.folders) = {}
              /\ savers' = [savers EXCEPT ![mount].pc = "done"]
              /\ UNCHANGED config_file
           \/ /\ p.pc = "exit"
              /\ DOMAIN persistent_folders(p.folders) # {}
              /\ savers' = Meet([savers EXCEPT
                                   ![mount].pc = "read",
                                   ![mount].data = save_read(config_file)])
              /\ UNCHANGED config_file
           \/ /\ p.pc = "read"
              /\ config_file' = save_open
              /\ savers' = Meet([savers EXCEPT ![mount].pc = "opened"])
           \/ /\ p.pc = "opened"
              /\ config_file' = save_dump(p.data, mount, p.folders)
              /\ savers' = Meet([savers EXCEPT ![mount].pc = "done"])
        /\ UNCHANGED <<folders, file_handles, clients, mountpoint, running,
                       version_info, editors, last>>

\* Variant: the save refreshes the enabled folders first.
shutdown_refreshing ==
    /\ running
    /\ config_file' = _save_config(config_file, mountpoint, folders)
    /\ running' = FALSE
    /\ \E w \in Worlds :
          last' = Did("save", <<>>, "",
                      LoadCalls(folders, SetToSeq(DOMAIN folders), clients, w),
                      FALSE)
    /\ UNCHANGED <<folders, file_handles, clients, mountpoint, version_info,
                   savers>>

\* The atexit handler: the process saves and ends.
shutdown ==
    /\ running
    /\ config_file' = _save_config(config_file, mountpoint, folders)
    /\ running' = FALSE
    /\ last' = Did("save", <<>>, "", <<>>, FALSE)
    /\ UNCHANGED <<folders, file_handles, clients, mountpoint, version_info,
                   savers>>

\* IssueFS.__init__ of a new process for mount point `mount`, the probes
\* answering with one of `results`.
mount_probing(mount, results) ==
    /\ ~running
    /\ LET file == IF config_file.kind = "absent"
                   THEN _initialize_config_file ELSE config_file
           section == FoldersConfig(file, mount)
       IN  /\ config_file' = file
           /\ \E loaded \in LoadableSets(section), w \in Worlds :
                  /\ folders' = _load_config(section, loaded, clients, w)
                  /\ last' = Did("mount", <<>>, "",
                                 LoadCalls(section, SetToSeq(loaded),
                                           clients, w), FALSE)
    /\ file_handles' = <<>>
    /\ mountpoint' = mount
    /\ running' = TRUE
    /\ version_info' \in TestConnections(clients, results)
    /\ UNCHANGED <<clients, savers>>

\* A new process whose probes find every server.
mount_at(mount) == mount_probing(mount, {ProbeOk})

\* ------------------------------------------------------------------ inputs
En(b) == UBool("enabled", b)

Pers(b) == UBool("persistent", b)

Jira(q, ids) == UBlock("jira", "map", q, "", "list", ids)

GitHub(repo, q, ids) == UBlock("github", "map", q, repo, "list", ids)

JiraNonMap == UBlock("jira", "nonmap", "", "", "", <<>>)

\* The writes of an editor of a Jira folder: whole documents at offset 0 and
\* single entries further on.
WriteInputs ==
    { [data |-> <<En(TRUE), Jira("q1", <<>>)>>, offset |-> 0],
      [data |-> <<En(FALSE)>>, offset |-> 0],
      [data |-> <<Scalar>>, offset |-> 0],
      [data |-> <<BadUtf8>>, offset |-> 0],
      [data |-> <<JiraNonMap>>, offset |-> 1],
      [data |-> <<Pers(TRUE)>>, offset |-> 2] }

\* The writes of an editor of a folder that draws on several trackers.
MultiInputs ==
    { [data |-> <<En(TRUE), Jira("q1", <<>>),
                  GitHub("r", "q2", <<"1">>)>>, offset |-> 0],
      [data |-> <<En(TRUE), GitHub("r", "", <<"2", "2">>)>>, offset |-> 0],
      [data |-> <<JiraNonMap>>, offset |-> 1],
      [data |-> <<GitHub("r", "", <<"1">>)>>, offset |-> 2] }

FilePaths == { <<"f", "config.yaml">>, <<"f", "A.txt">> }

DirPaths == { <<"f">>, <<"f", "A.txt">> }

\* The sections the store can hold for this mount point at mount time.
InitSections ==
    { <<>>,
      [name \in {"f"} |->
          ConfigFields([NewQueryFolder EXCEPT
              !.enabled = TRUE, !.persistent = TRUE,
              !.jira_config = [DefaultConfig EXCEPT !.q = "q1"]])] }

\* The mount point of the first session.
HomeMount == "/m"

\* The store files the first session can find.
InitFiles ==
    { StoreFile("ok", [m \in {HomeMount} |-> section]) :
        section \in InitSections }

ClientSets == { TrackerSet, {"github", "bugzilla"} }

\* ----------------------------------------------------------- specification
\* The state after IssueFS.__init__ at HomeMount, the store file being one
\* of `files`, the registry one of `registries` and the probes answering
\* with one of `results`.
InitProbing(files, registries, results) ==
    /\ clients \in registries
    /\ mountpoint = HomeMount
    /\ running = TRUE
    /\ \E found \in files :
          LET file == IF found.kind = "absent"
                      THEN _initialize_config_file ELSE found
              section == FoldersConfig(file, HomeMount)
          IN  /\ config_file = file
              /\ \E loaded \in LoadableSets(section), w \in Worlds :
                    /\ folders = _load_config(section, loaded, clients, w)
                    /\ last = Did("mount", <<>>, "",
                                  LoadCalls(section, SetToSeq(loaded),
                                            clients, w), FALSE)
    /\ file_handles = <<>>
    /\ version_info \in TestConnections(clients, results)

\* No editor follows a script and no process is inside _save_config.
Quiet == editors = <<>> /\ savers = <<>>

\* The first session when its probes find every server.
InitWith(files) == InitProbing(files, ClientSets, {ProbeOk}) /\ Quiet

Init == InitWith(InitFiles)

Engine(writes) ==
    \/ \E path \in FilePaths :
        \/ \E in \in writes :
              /\ in.offset + Len(in.data) <= MaxBuf
              /\ write(path, in.data, in.offset)
              /\ UNCHANGED editors
        \/ \E length \in 0..MaxBuf :
              truncate(path, length) /\ UNCHANGED editors
        \/ flush(path) /\ UNCHANGED editors
        \/ release(path) /\ UNCHANGED editors
    \/ \E path \in DirPaths :
        \/ mkdir(path) /\ UNCHANGED editors
        \/ rmdir(path) /\ UNCHANGED editors

Next == Engine(WriteInputs)

Spec == Init /\ [][Next]_vars

NextMulti == Engine(MultiInputs)

SpecMulti == Init /\ [][NextMulti]_vars

\* Every callback over the kinds of path of the tree: the root, version.txt,
\* folders, config.yaml, an issue file and a file of another name.
OpsPaths ==
    { <<>>, <<"version.txt">>, <<"f">>, <<"g">>, <<"f", "config.yaml">>,
      <<"f", "A.txt">>, <<"f", "x">> }

\* The paths handed to write, truncate, flush and release.
OpsFilePaths ==
    { <<"version.txt">>, <<"f">>, <<"f", "config.yaml">>, <<"f", "A.txt">> }

\* The paths handed to mkdir and rmdir.
OpsDirPaths == { <<>>, <<"version.txt">>, <<"f">>, <<"g">>, <<"f", "x">> }

OpsInputs == { [data |-> <<En(TRUE), Jira("q1", <<>>)>>, offset |-> 0] }

NextOps ==
    \/ \E path \in OpsPaths :
        \/ Getattr(path) /\ UNCHANGED editors
        \/ Readdir(path) /\ UNCHANGED editors
        \/ Open(path) /\ UNCHANGED editors
        \/ Read(path) /\ UNCHANGED editors
        \/ Unlink(path) /\ UNCHANGED editors
    \/ \E path \in OpsFilePaths :
        \/ \E in \in OpsInputs :
              write(path, in.data, in.offset) /\ UNCHANGED editors
        \/ truncate(path, 0) /\ UNCHANGED editors
        \/ flush(path) /\ UNCHANGED editors
        \/ release(path) /\ UNCHANGED editors
    \/ \E path \in OpsDirPaths :
        \/ mkdir(path) /\ UNCHANGED editors
        \/ rmdir(path) /\ UNCHANGED editors

SpecOps == Init /\ [][NextOps]_vars

\* Sessions: processes that mount at one of two mount points, edit folders,
\* and save at exit into the one store file.
StoreMounts == {"/m", "/n"}

\* What the store file of the first session can be: missing, not YAML, or
\* holding sections written by earlier sessions.
StoreFiles ==
    LET f_cfg == ConfigFields([NewQueryFolder EXCEPT
                    !.enabled = TRUE, !.persistent = TRUE,
                    !.jira_config = [DefaultConfig EXCEPT !.q = "q1"]])
        g_cfg == ConfigFields([NewQueryFolder EXCEPT !.persistent = TRUE])
    IN  { StoreFile("absent", <<>>),
          StoreFile("unreadable", <<>>),
          StoreFile("ok", [m \in {"/n"} |-> [name \in {"g"} |-> g_cfg]]),
          StoreFile("ok", [m \in StoreMounts |->
                             IF m = "/m" THEN [name \in {"f"} |-> f_cfg]
                             ELSE [name \in {"g"} |-> g_cfg]]) }

\* Whole documents saved by an editor at offset 0.
StoreInputs ==
    { [data |-> <<Pers(TRUE), Jira("q1", <<>>)>>, offset |-> 0],
      [data |-> <<Pers(FALSE), Jira("q1", <<>>)>>, offset |-> 0],
      [data |-> <<Pers(TRUE), JiraNonMap>>, offset |-> 0] }

StoreFilePaths == { <<"f", "config.yaml">> }

StoreDirPaths == { <<"f">>, <<"g">> }

InitStore == InitWith(StoreFiles)

NextStore ==
    \/ \E path \in StoreFilePaths :
        \/ \E in \in StoreInputs :
              running /\ write(path, in.data, in.offset) /\ UNCHANGED editors
        \/ running /\ flush(path) /\ UNCHANGED editors
    \/ \E path \in StoreDirPaths :
        \/ running /\ mkdir(path) /\ UNCHANGED editors
        \/ running /\ rmdir(path) /\ UNCHANGED editors
    \/ shutdown /\ UNCHANGED editors
    \/ \E mount \in StoreMounts : mount_at(mount) /\ UNCHANGED editors

SpecStore == InitStore /\ [][NextStore]_vars

\* Sessions whose probes can fail: any of the registered trackers, or all of
\* them, are unreachable at mount time, and the registry can be empty.
VersionRegistries == { TrackerSet, {"github", "bugzilla"}, {} }

ProbeResults == { ProbeOk, ProbeFailed }

VersionPaths == { <<"version.txt">>, <<"f", "config.yaml">> }

\* Whole documents saved by an editor: a query for this session only, and
\* one to keep.
VersionInputs ==
    { [data |-> <<En(TRUE), Jira("q1", <<>>)>>, offset |-> 0],
      [data |-> <<En(TRUE), Pers(TRUE), Jira("q2", <<>>)>>, offset |-> 0] }

InitVersion ==
    InitProbing(InitFiles, VersionRegistries, ProbeResults) /\ Quiet

NextVersion ==
    \/ \E path \in VersionPaths :
        \/ running /\ Getattr(path) /\ UNCHANGED editors
        \/ running /\ Readdir(path) /\ UNCHANGED editors
        \/ running /\ Open(path) /\ UNCHANGED editors
        \/ running /\ Read(path) /\ UNCHANGED editors
        \/ running /\ Unlink(path) /\ UNCHANGED editors
        \/ running /\ truncate(path, 0) /\ UNCHANGED editors
        \/ running /\ flush(path) /\ UNCHANGED editors
        \/ running /\ release(path) /\ UNCHANGED editors
    \/ \E in \in VersionInputs :
          /\ running
          /\ write(<<"f", "config.yaml">>, in.data, in.offset)
          /\ UNCHANGED editors
    \/ running /\ mkdir(<<"f">>) /\ UNCHANGED editors
    \/ running /\ rmdir(<<"f">>) /\ UNCHANGED editors
    \/ shutdown /\ UNCHANGED editors
    \/ mount_probing(HomeMount, ProbeResults) /\ UNCHANGED editors

SpecVersion == InitVersion /\ [][NextVersion]_vars

\* Two editors save the same config.yaml: each calls truncate(0), then
\* write(its document, 0), then flush, then release, and the dispatch thread
\* runs one callback at a time in any interleaving.  `editors` holds the
\* next call of each, the document of each, and who flushed most recently.
Editors == {"e1", "e2"}

EditorDocs ==
    { <<En(TRUE), Jira("q1", <<>>), Pers(TRUE)>>,
      <<En(FALSE)>> }

EditorPath == <<"f", "config.yaml">>

InitEditors ==
    /\ InitProbing(InitFiles, ClientSets, {ProbeOk})
    /\ savers = <<>>
    /\ editors \in [pc : {[e \in Editors |-> "truncate"]},
                    doc : [Editors -> EditorDocs],
                    last_flush : {""}]

EditorStep(e) ==
    /\ "f" \in DOMAIN folders
    /\ \/ /\ editors.pc[e] = "truncate"
          /\ truncate(EditorPath, 0)
          /\ editors' = [editors EXCEPT !.pc[e] = "write"]
       \/ /\ editors.pc[e] = "write"
          /\ write(EditorPath, editors.doc[e], 0)
          /\ editors' = [editors EXCEPT !.pc[e] = "flush"]
       \/ /\ editors.pc[e] = "flush"
          /\ flush(EditorPath)
          /\ editors' = [editors EXCEPT !.pc[e] = "release",
                                        !.last_flush = e]
       \/ /\ editors.pc[e] = "release"
          /\ release(EditorPath)
          /\ editors' = [editors EXCEPT !.pc[e] = "done"]

NextEditors ==
    \/ \E e \in Editors : EditorStep(e)
    \/ mkdir(<<"f">>) /\ UNCHANGED editors

SpecEditors == InitEditors /\ [][NextEditors]_vars

\* Processes mounted at different mount points reach their atexit handlers
\* at the same time.  Each holds the folder map it had at exit.
SaverMaps ==
    LET f_kept == [NewQueryFolder EXCEPT
                      !.enabled = TRUE, !.persistent = TRUE,
                      !.jira_config = [DefaultConfig EXCEPT !.q = "q1"]]
        g_kept == [NewQueryFolder EXCEPT !.persistent = TRUE]
    IN  { [name \in {"f"} |-> f_kept],
          [name \in {"g"} |-> g_kept],
          [name \in {"f", "g"} |-> IF name = "f" THEN f_kept
                                   ELSE NewQueryFolder],
          [name \in {"g"} |-> NewQueryFolder] }

InitSavers ==
    /\ config_file \in StoreFiles \ {StoreFile("absent", <<>>)}
    /\ savers \in [StoreMounts ->
                     [pc : {"exit"}, folders : SaverMaps, data : {<<>>},
                      overlapped : {FALSE}]]
    /\ editors = <<>>
    /\ folders = <<>>
    /\ file_handles = <<>>
    /\ clients = {}
    /\ mountpoint = HomeMount
    /\ running = FALSE
    /\ version_info = <<>>
    /\ last = Did("save", <<>>, "", <<>>, FALSE)

NextSavers == \E mount \in StoreMounts : SaverStep(mount)

SpecSavers == InitSavers /\ [][NextSavers]_vars

\* Refreshes of one folder under registries that lack trackers the folder is
\* configured for, and with GitHub blocks that name no repo.
RefreshRegistries == { TrackerSet, {"github", "bugzilla"}, {"jira"} }

Bugzilla(q, ids) == UBlock("bugzilla", "map", q, "", "list", ids)

\* Whole documents saved by an editor at offset 0.
RefreshInputs ==
    { [data |-> <<En(TRUE), Jira("q1", <<"2">>), GitHub("", "q2", <<"1">>)>>,
       offset |-> 0],
      [data |-> <<En(TRUE), Jira("q1", <<"2">>), Bugzilla("q3", <<>>)>>,
       offset |-> 0],
      [data |-> <<En(TRUE), GitHub("", "q2", <<"1">>)>>, offset |-> 0],
      [data |-> <<En(FALSE), Jira("q1", <<>>)>>, offset |-> 0] }

RefreshPath == <<"f", "config.yaml">>

InitRefresh == InitProbing(InitFiles, RefreshRegistries, {ProbeOk}) /\ Quiet

NextRefresh ==
    \/ \E in \in RefreshInputs :
          write(RefreshPath, in.data, in.offset) /\ UNCHANGED editors
    \/ truncate(RefreshPath, 0) /\ UNCHANGED editors
    \/ flush(RefreshPath) /\ UNCHANGED editors
    \/ release(RefreshPath) /\ UNCHANGED editors
    \/ mkdir(<<"f">>) /\ UNCHANGED editors

SpecRefresh == InitRefresh /\ [][NextRefresh]_vars

\* Documents that leave out keys and whole blocks, or give a block or its
\* `issues` a value of another type, saved over a folder that holds a
\* configuration for every tracker.
DecodeInputs ==
    { [data |-> <<En(TRUE), Pers(TRUE), GitHub("r", "q2", <<"1">>)>>,
       offset |-> 0],
      [data |-> <<Jira("q1", <<"2">>),
                  UBlock("github", "notlist", "", "", "", <<>>),
                  UBlock("bugzilla", "emptylist", "", "", "", <<>>)>>,
       offset |-> 0],
      [data |-> <<En(TRUE), UBlock("jira", "map", "q1", "", "absent", <<>>),
                  UBlock("bugzilla", "map", "q3", "", "notlist", <<>>)>>,
       offset |-> 0],
      [data |-> <<EmptyMap>>, offset |-> 0] }

DecodePath == <<"f", "config.yaml">>

NextDecode ==
    \/ \E in \in DecodeInputs :
          write(DecodePath, in.data, in.offset) /\ UNCHANGED editors
    \/ \E length \in {0, 1} :
          truncate(DecodePath, length) /\ UNCHANGED editors
    \/ flush(DecodePath) /\ UNCHANGED editors
    \/ release(DecodePath) /\ UNCHANGED editors

SpecDecode == Init /\ [][NextDecode]_vars

\* An editor that writes pieces at any offset and truncates to any length.
BufferInputs ==
    { [data |-> data, offset |-> offset] :
        data \in { <<En(TRUE)>>, <<En(FALSE), Pers(TRUE)>> },
        offset \in 0..MaxBuf }

BufferPath == <<"f", "config.yaml">>

NextBuffer ==
    \/ \E in \in BufferInputs :
          /\ in.offset + Len(in.data) <= MaxBuf
          /\ write(BufferPath, in.data, in.offset)
          /\ UNCHANGED editors
    \/ \E length \in 0..MaxBuf :
          truncate(BufferPath, length) /\ UNCHANGED editors
    \/ flush(BufferPath) /\ UNCHANGED editors
    \/ release(BufferPath) /\ UNCHANGED editors
    \/ mkdir(<<"f">>) /\ UNCHANGED editors

SpecBuffer == Init /\ [][NextBuffer]_vars

\* ---------------------------------------------------------------- claims
\* Vocabulary of the claims.

\* The step is a flush of path that reaches the commit.
FlushStep(path) ==
    /\ Commits(path)
    /\ last'.op = "flush"
    /\ last'.path = path

\* The most recent callback was a flush of path that reached the commit.
Flushed(path) ==
    /\ last.op = "flush"
    /\ last.path = path
    /\ Commits(path)

FolderAt(path) == folders[_get_folder_from_path(path)]

\* No backend holds a usable query or explicit id.
NoUsableQuery(folder) ==
    /\ folder.jira_config.q = "" /\ folder.jira_config.ids = <<>>
    /\ \/ folder.github_config.repo = ""
       \/ folder.github_config.q = "" /\ folder.github_config.ids = <<>>
    /\ folder.bugzilla_config.q = "" /\ folder.bugzilla_config.ids = <<>>

\* The buffered bytes do not parse: not UTF-8, not YAML, or no mapping.
ParseFails(buf) ==
    ~Utf8Ok(buf) \/ safe_load(buf) \in {"YAMLError", "scalar"}

\* A valid configuration document: a YAML mapping whose tracker blocks,
\* where present, are well formed.
ValidDoc(buf) ==
    /\ Utf8Ok(buf)
    /\ safe_load(buf) = "map"
    /\ \A i \in 1..Len(buf) : buf[i].shape # "nonmap"

\* The configuration in which every field reflects the document.
FullDecode(text) ==
    [enabled |-> GetFlag(text, "enabled"),
     persistent |-> GetFlag(text, "persistent"),
     jira_config |-> LoadBlock(text, "jira").cfg,
     github_config |-> LoadBlock(text, "github").cfg,
     bugzilla_config |-> LoadBlock(text, "bugzilla").cfg]

\* Decoding a text into a fresh folder.
Decode(text) == ConfigFields(from_yaml(NewQueryFolder, text).folder)

Rank(t) == CASE t = "jira" -> 1 [] t = "github" -> 2 [] OTHER -> 3

\* C1 (as claimed): a flush that decodes and leaves the folder enabled runs
\* the refresh when a tracked field differs, in particular when only
\* `persistent` differs from the configuration before the flush.
C1_PersistentTriggersRefresh ==
    [][\A path \in FilePaths :
          ( /\ FlushStep(path)
            /\ last'.err = ""
            /\ safe_load(file_handles[path]) = "map"
            /\ FolderAt(path)'.enabled
            /\ FolderAt(path)'.persistent # FolderAt(path).persistent
            /\ Diffed(FolderAt(path)') = Diffed(FolderAt(path)) )
          => last'.refreshed]_vars

\* C1 (amended): a flush that decodes, leaves the folder enabled with a
\* usable query or explicit id, and changes enabled, a query, the GitHub
\* repo or an explicit-id list, runs update_issues before it returns; a
\* change of `persistent` alone does not.
C1_ChangeTriggersRefresh ==
    [][\A path \in FilePaths :
          ( /\ FlushStep(path)
            /\ last'.err = ""
            /\ safe_load(file_handles[path]) = "map"
            /\ FolderAt(path)'.enabled
            /\ ~NoUsableQuery(FolderAt(path)') )
          => ( last'.refreshed <=>
                 Diffed(FolderAt(path)') # Diffed(FolderAt(path)) )]_vars

\* C1 witness: a flush of an enabled folder's config.yaml ran the refresh
\* and the refresh called a tracker.
C1_Witness ==
    /\ Flushed(<<"f", "config.yaml">>)
    /\ last.refreshed
    /\ folders["f"].enabled
    /\ last.calls # <<>>

\* C2: after a flush that decodes and leaves the folder enabled with no
\* usable query or explicit id, the cached issue list is empty.
C2_NoQueryClears ==
    \A path \in FilePaths :
        ( /\ Flushed(path)
          /\ last.err = ""
          /\ safe_load(file_handles[path]) = "map"
          /\ FolderAt(path).enabled
          /\ NoUsableQuery(FolderAt(path)) )
        => FolderAt(path).issues = <<>>

\* C3: no two entries of a folder's cached issue list have the same key.
C3_UniqueKeys ==
    \A name \in DOMAIN folders :
        \A i, j \in 1..Len(folders[name].issues) :
            i # j => folders[name].issues[i].key # folders[name].issues[j].key

\* C4: when two trackers both return a record with the same key during one
\* refresh, the issue list has exactly one entry with that key, and it is
\* the record of the tracker that comes first in the order jira, github,
\* bugzilla.
C4_DedupLaw ==
    \A path \in FilePaths :
        (Flushed(path) /\ last.refreshed) =>
            \A i, j \in 1..Len(last.calls) :
                \A k \in SeqToSet(last.calls[i].keys) :
                    ( /\ Rank(last.calls[i].tracker) < Rank(last.calls[j].tracker)
                      /\ k \in SeqToSet(last.calls[j].keys) )
                    => LET issues == FolderAt(path).issues
                           at == {n \in 1..Len(issues) : issues[n].key = k}
                       IN  /\ Cardinality(at) = 1
                           /\ \A n \in at :
                                Rank(issues[n].src) <= Rank(last.calls[i].tracker)

\* C5: when the buffered bytes fail to parse at flush, the folder's
\* configuration is what it was, no tracker call is made, and the issue
\* list of an enabled, validly configured folder is unchanged.
C5_ParseFailureKeepsState ==
    [][\A path \in FilePaths :
          (FlushStep(path) /\ ParseFails(file_handles[path])) =>
            /\ ConfigFields(FolderAt(path)') = ConfigFields(FolderAt(path))
            /\ last'.calls = <<>>
            /\ ~last'.refreshed
            /\ (FolderAt(path).enabled /\ ~NoUsableQuery(FolderAt(path)))
                  => FolderAt(path)'.issues = FolderAt(path).issues]_vars

\* C5 witness: a flush of bytes that do not parse, on an enabled, validly
\* configured folder with a populated issue list.
C5_Witness ==
    /\ Flushed(<<"f", "config.yaml">>)
    /\ ParseFails(file_handles[<<"f", "config.yaml">>])
    /\ folders["f"].enabled
    /\ ~NoUsableQuery(folders["f"])
    /\ folders["f"].issues # <<>>

\* C6: decode is all-or-nothing: after from_yaml either every configuration
\* field reflects the document or none has changed.
C6_AllOrNothing ==
    [][\A path \in FilePaths :
          (FlushStep(path) /\ Utf8Ok(file_handles[path])) =>
            \/ ConfigFields(FolderAt(path)') = ConfigFields(FolderAt(path))
            \/ /\ safe_load(file_handles[path]) = "map"
               /\ ConfigFields(FolderAt(path)') =
                    FullDecode(file_handles[path])]_vars

\* C7: for a valid configuration document d, after d is written and
\* flushed, reading config.yaml and decoding it yields the fields of d; and
\* dumping a folder's configuration and decoding it gives it back.
C7_RoundTrip ==
    /\ \A path \in FilePaths :
          (Flushed(path) /\ ValidDoc(file_handles[path])) =>
              Decode(read_config(path, Len(to_yaml(FolderAt(path))), 0).data)
                  = Decode(file_handles[path])
    /\ \A name \in DOMAIN folders :
          Decode(to_yaml(folders[name])) = ConfigFields(folders[name])

\* C8: a flush that enables a folder with a query of one registered
\* tracker and nothing else, where that tracker resolves the query to the
\* issues A and B, makes readdir of the folder yield exactly config.yaml,
\* A.txt and B.txt.
C8_EnableListsIssues ==
    [][\A path \in FilePaths :
          ( /\ FlushStep(path)
            /\ ~FolderAt(path).enabled
            /\ FolderAt(path)'.enabled
            /\ "jira" \in clients
            /\ FolderAt(path)'.jira_config = [DefaultConfig EXCEPT !.q = "q1"]
            /\ FolderAt(path)'.github_config = DefaultConfig
            /\ FolderAt(path)'.bugzilla_config = DefaultConfig
            /\ \A i \in 1..Len(last'.calls) :
                  (last'.calls[i].tracker = "jira"
                     /\ last'.calls[i].method = "search")
                  => ( /\ last'.calls[i].outcome = "ok"
                       /\ SeqToSet(last'.calls[i].keys) = {"A", "B"} ) )
          => /\ Len(last'.calls) = 1
             /\ last'.calls[1].arg = "q1"
             /\ Len(readdir(<<_get_folder_from_path(path)>>)') = 3
             /\ SeqToSet(readdir(<<_get_folder_from_path(path)>>)') =
                   {"config.yaml", "A.txt", "B.txt"}]_vars

\* C8 witness: the folder was just enabled by a flush and lists A and B.
C8_Witness ==
    /\ Flushed(<<"f", "config.yaml">>)
    /\ last.refreshed
    /\ Len(last.calls) = 1
    /\ readdir(<<"f">>) = <<"config.yaml", "A.txt", "B.txt">>

\* C9: a folder whose enabled flag is false has an empty cached issue list.
C9_DisabledIsEmpty ==
    \A name \in DOMAIN folders :
        ~folders[name].enabled => folders[name].issues = <<>>

\* C10: write and truncate change only the write buffers: the folder map,
\* every folder's configuration and issue list, and so what read and
\* readdir return, are unchanged.
C10_WriteFrame ==
    [][last'.op \in {"write", "truncate"} =>
          /\ folders' = folders
          /\ \A path \in FilePaths \cup DirPaths :
                /\ read_config(path, MaxBuf, 0)' = read_config(path, MaxBuf, 0)
                /\ readdir(path)' = readdir(path)]_vars

\* C10 witness: a write has buffered bytes that differ from the dump of the
\* folder's live configuration.
C10_Witness ==
    /\ last.op = "write"
    /\ last.err = ""
    /\ last.path \in DOMAIN file_handles
    /\ file_handles[last.path] # <<>>
    /\ file_handles[last.path] # to_yaml(FolderAt(last.path))
    /\ Decode(file_handles[last.path]) # ConfigFields(FolderAt(last.path))

\* The step is the callback `op` on `path`.
Step(op, path) == last'.op = op /\ last'.path = path

\* The names a root-level path can carry in SpecOps.
RootNames == {"f", "g", "version.txt"}

\* The life of the name n in the folder map, as mkdir, rmdir, readdir(/) and
\* getattr(/n) show it over one step.
NameLife(n) ==
    /\ (Step("mkdir", <<n>>) /\ n \notin DOMAIN folders) =>
          /\ last'.err = ""
          /\ n \in DOMAIN folders'
          /\ folders'[n] = NewQueryFolder
    /\ (n \in DOMAIN folders /\ ~Step("rmdir", <<n>>)) =>
          n \in DOMAIN folders'
    /\ n \in DOMAIN folders' => n \in SeqToSet(readdir(<<>>)')
    /\ (Step("rmdir", <<n>>) /\ n \in DOMAIN folders) =>
          /\ last'.err = ""
          /\ n \notin DOMAIN folders'
    /\ (n \notin DOMAIN folders /\ ~Step("mkdir", <<n>>)) =>
          n \notin DOMAIN folders'
    /\ n \notin DOMAIN folders' =>
          /\ n \notin SeqToSet(readdir(<<>>)')
          /\ getattr(<<n>>)'.err = "ENOENT"

\* C11: within a session the configuration of an existing folder changes
\* only in a flush of that folder's own config.yaml; every other callback,
\* and a flush of any other path, leaves it as it was.
C11_OnlyOwnFlushChangesConfig ==
    [][\A n \in DOMAIN folders \cap DOMAIN folders' :
          ConfigFields(folders'[n]) # ConfigFields(folders[n]) =>
              Step("flush", <<n, "config.yaml">>)]_vars

\* C11 witness: a write to f's config.yaml has buffered a configuration
\* different from the live one while another folder exists.
C11_Witness ==
    /\ last.op = "write" /\ last.err = ""
    /\ last.path = <<"f", "config.yaml">>
    /\ "g" \in DOMAIN folders
    /\ Decode(file_handles[<<"f", "config.yaml">>]) #
          ConfigFields(folders["f"])

\* C12 (as claimed): for any name not in the folder map, mkdir succeeds and
\* creates a default folder; readdir(/) yields the name until rmdir; after
\* rmdir, readdir(/) does not yield it and getattr fails with ENOENT until it
\* is created again.
C12_AnyNameListedUntilRmdir ==
    [][\A n \in RootNames : NameLife(n)]_vars

\* C12 (amended): the same for every name other than version.txt, the name
\* of the file the root always holds.
C12_FolderListedUntilRmdir ==
    [][\A n \in RootNames \ {"version.txt"} : NameLife(n)]_vars

\* C12 witness: rmdir has just removed f while g is still a folder.
C12_Witness ==
    /\ last.op = "rmdir" /\ last.err = "" /\ last.path = <<"f">>
    /\ "f" \notin DOMAIN folders
    /\ "g" \in DOMAIN folders

\* C13: mkdir of an existing folder fails with EEXIST, rmdir of a root-level
\* name that is no folder fails with ENOENT, mkdir or rmdir of the root or of
\* a nested path fails with EACCES, and a failing mkdir or rmdir leaves the
\* folder map and every folder unchanged.
C13_DirErrors ==
    [][\A path \in OpsDirPaths :
          /\ (Step("mkdir", path) /\ Len(path) = 1
                /\ path[1] \in DOMAIN folders) => last'.err = "EEXIST"
          /\ (Step("rmdir", path) /\ Len(path) = 1
                /\ path[1] \notin DOMAIN folders) => last'.err = "ENOENT"
          /\ ((Step("mkdir", path) \/ Step("rmdir", path))
                /\ Len(path) # 1) => last'.err = "EACCES"
          /\ ((Step("mkdir", path) \/ Step("rmdir", path))
                /\ last'.err # "") => folders' = folders]_vars

\* C13 witness: mkdir has just failed with EEXIST on a folder that holds a
\* configuration of its own.
C13_Witness ==
    /\ last.op = "mkdir" /\ last.err = "EEXIST" /\ last.path = <<"f">>
    /\ ConfigFields(folders["f"]) # ConfigFields(NewQueryFolder)

Reload == ~running /\ Step("mount", <<>>) /\ mountpoint' = mountpoint

\* C15: if at the save some folder is persistent, then after the load for
\* the same mount path every folder that was persistent is in the folder map
\* with the same enabled, persistent and backend-config fields, and no other
\* folder is; and a persisted entry never holds the issue list.
C15_PersistenceRoundTrip ==
    [][(Reload /\ \E n \in DOMAIN folders : folders[n].persistent) =>
          /\ \A n \in DOMAIN folders :
                folders[n].persistent =>
                    /\ n \in DOMAIN folders'
                    /\ ConfigFields(folders'[n]) = ConfigFields(folders[n])
          /\ \A n \in DOMAIN folders' :
                n \in DOMAIN folders /\ folders[n].persistent
          /\ \A n \in DOMAIN config_file.mountpoints[mountpoint] :
                "issues" \notin
                    DOMAIN config_file.mountpoints[mountpoint][n]]_vars

\* C16: a folder that is not in the folder map, or not persistent, when a
\* process saves and ends is absent from the folder map after the next load
\* for that mount path, also when no folder of the mount is persistent.
C16_RemovedStaysRemoved ==
    [][Reload =>
          \A n \in DOMAIN folders' :
              n \in DOMAIN folders /\ folders[n].persistent]_vars

\* C17: a save replaces only the section of its own mount path: the section
\* of every other mount path of a readable store is the same afterwards, and
\* with no persistent folder the store file is unchanged.
C17_SaveFrame ==
    [][Step("save", <<>>) =>
          /\ config_file.kind = "ok" =>
                \A m \in DOMAIN config_file.mountpoints \ {mountpoint} :
                    /\ config_file'.kind = "ok"
                    /\ m \in DOMAIN config_file'.mountpoints
                    /\ config_file'.mountpoints[m] = config_file.mountpoints[m]
          /\ (\A n \in DOMAIN folders : ~folders[n].persistent) =>
                config_file' = config_file]_vars

\* C17 witness: a save has written the section of /m into a store that holds
\* a section of /n.
C17_Witness ==
    /\ last.op = "save" /\ mountpoint = "/m"
    /\ \E n \in DOMAIN folders : folders[n].persistent
    /\ config_file.kind = "ok"
    /\ DOMAIN config_file.mountpoints = StoreMounts
    /\ DOMAIN config_file.mountpoints["/m"] =
          {n \in DOMAIN folders : folders[n].persistent}
    /\ DOMAIN config_file.mountpoints["/n"] # {}

\* C18: a load creates folders only from the store section keyed by its own
\* mount path, each with the persisted fields; with no store file, an
\* unreadable one or no such section the folder map is empty.
C18_MountIsolation ==
    [][Step("mount", <<>>) =>
          \A n \in DOMAIN folders' :
              /\ config_file'.kind = "ok"
              /\ mountpoint' \in DOMAIN config_file'.mountpoints
              /\ n \in DOMAIN config_file'.mountpoints[mountpoint']
              /\ ConfigFields(folders'[n]) =
                    config_file'.mountpoints[mountpoint'][n]]_vars

\* C18 witness: a later process has mounted /n and loaded g while the store
\* holds folder f under /m only.
C18_Witness ==
    /\ last.op = "mount" /\ running /\ mountpoint = "/n"
    /\ DOMAIN folders = {"g"}
    /\ config_file.kind = "ok"
    /\ DOMAIN config_file.mountpoints = StoreMounts
    /\ "f" \in DOMAIN config_file.mountpoints["/m"]
    /\ "f" \notin DOMAIN config_file.mountpoints["/n"]

\* The keys of an issue list, in order.
KeySeq(issues) == [i \in 1..Len(issues) |-> issues[i].key]

\* Does a refresh of the folder search tracker t?
Searches(folder, t) ==
    LET cfg == ConfigOf(folder, t)
    IN  IF t = "github" THEN cfg.q # "" /\ cfg.repo # "" ELSE cfg.q # ""

\* Does a refresh of the folder fetch explicit identifiers of tracker t?
Fetches(folder, t) ==
    LET cfg == ConfigOf(folder, t)
    IN  IF t = "github" THEN cfg.repo # "" ELSE TRUE

\* C19: in every refresh run by a flush, whatever calls raise or report
\* not-found, flush returns without error, every searched backend is
\* searched, every listed identifier of every registered backend is fetched
\* unless it is already a key of the result, and every record a successful
\* call returned is in the issue list.
C19_FaultIsolation ==
    [][\A path \in FilePaths :
          (FlushStep(path) /\ last'.refreshed) =>
            LET folder == FolderAt(path)'
                calls == last'.calls
                keys == SeqToSet(KeySeq(folder.issues))
            IN  /\ last'.err = ""
                /\ \A t \in clients :
                      /\ Searches(folder, t) =>
                            \E i \in 1..Len(calls) :
                                /\ calls[i].tracker = t
                                /\ calls[i].method = "search"
                      /\ Fetches(folder, t) =>
                            \A id \in SeqToSet(ConfigOf(folder, t).ids) :
                                \/ id \in keys
                                \/ \E i \in 1..Len(calls) :
                                      /\ calls[i].tracker = t
                                      /\ calls[i].method = "get_issue"
                                      /\ calls[i].arg = id
                /\ \A i \in 1..Len(calls) :
                      calls[i].outcome = "ok" =>
                          SeqToSet(calls[i].keys) \subseteq keys]_vars

\* C19 witness: a refresh whose first call raised and in which a later call
\* of another backend succeeded and contributed to the issue list.
C19_Witness ==
    /\ Flushed(<<"f", "config.yaml">>) /\ last.refreshed
    /\ Len(last.calls) >= 2
    /\ last.calls[1].outcome = "raise"
    /\ \E i \in 2..Len(last.calls) :
          /\ last.calls[i].outcome = "ok"
          /\ last.calls[i].tracker # last.calls[1].tracker
          /\ last.calls[i].keys # <<>>
    /\ folders["f"].issues # <<>>

\* The issue list the refresh algorithm builds from the answers of its
\* calls, taken in the order of the calls: of a search, the records whose
\* key is not yet in the list; of a get_issue, the record.
RECURSIVE AddUnseen(_, _, _)
AddUnseen(issues, t, keys) ==
    IF keys = <<>> THEN issues
    ELSE AddUnseen(IF Head(keys) \in SeqToSet(KeySeq(issues)) THEN issues
                   ELSE Append(issues, [key |-> Head(keys), src |-> t]),
                   t, Tail(keys))

RECURSIVE Replay(_, _)
Replay(issues, calls) ==
    IF calls = <<>> THEN issues
    ELSE LET c == Head(calls)
         IN  Replay(IF c.outcome # "ok" THEN issues
                    ELSE IF c.method = "search"
                    THEN AddUnseen(issues, c.tracker, c.keys)
                    ELSE issues \o [i \in 1..Len(c.keys) |->
                                       [key |-> c.keys[i], src |-> c.tracker]],
                    Tail(calls))

\* s is t with some elements left out.
RECURSIVE IsSubseq(_, _)
IsSubseq(s, t) ==
    IF s = <<>> THEN TRUE
    ELSE IF t = <<>> THEN FALSE
    ELSE IF Head(s) = Head(t) THEN IsSubseq(Tail(s), Tail(t))
    ELSE IsSubseq(s, Tail(t))

\* The identifiers tracker t was asked for, in the order of the calls.
RECURSIVE FetchedArgs(_, _)
FetchedArgs(calls, t) ==
    IF calls = <<>> THEN <<>>
    ELSE (IF Head(calls).tracker = t /\ Head(calls).method = "get_issue"
          THEN <<Head(calls).arg>> ELSE <<>>) \o FetchedArgs(Tail(calls), t)

\* C20: a refresh calls the backends in the order jira, github, bugzilla,
\* each backend's search before its get_issue calls and these in the order
\* of the configured list; the issue list is the search results in the order
\* returned, without keys already in the list, followed by the fetched
\* records, backend after backend; readdir yields the issue files in that
\* order after config.yaml.
C20_RefreshOrder ==
    [][\A path \in FilePaths :
          (FlushStep(path) /\ last'.refreshed /\ last'.err = "") =>
            LET folder == FolderAt(path)'
                calls == last'.calls
            IN  /\ \A i, j \in 1..Len(calls) :
                      i < j =>
                        /\ Rank(calls[i].tracker) <= Rank(calls[j].tracker)
                        /\ ~(/\ calls[i].tracker = calls[j].tracker
                             /\ calls[j].method = "search")
                /\ \A t \in TrackerSet :
                      IsSubseq(FetchedArgs(calls, t), ConfigOf(folder, t).ids)
                /\ folder.issues = Replay(<<>>, calls)
                /\ readdir(<<_get_folder_from_path(path)>>)' =
                      <<"config.yaml">> \o
                        [i \in 1..Len(folder.issues) |->
                            folder.issues[i].key \o ".txt"]]_vars

\* C20 witness: a refresh has listed records of two backends, from a search
\* and from an explicit identifier.
C20_Witness ==
    /\ Flushed(<<"f", "config.yaml">>) /\ last.refreshed
    /\ Len(folders["f"].issues) >= 4
    /\ folders["f"].issues[1].src = "jira"
    /\ folders["f"].issues[Len(folders["f"].issues)].src = "github"
    /\ \E i \in 1..Len(last.calls) :
          last.calls[i].method = "get_issue" /\ last.calls[i].outcome = "ok"
    /\ readdir(<<"f">>)[2] = folders["f"].issues[1].key \o ".txt"

\* The errors of the filesystem enumeration: not-found, already-exists and
\* permission-denied ("" is a normal return).
FsErrors == {"", "ENOENT", "EEXIST", "EACCES"}

\* C21: every callback returns normally or fails with one of ENOENT, EEXIST,
\* EACCES; no parse error of the buffered config and no backend error leaves
\* a callback as any other failure.
C21_OnlyFilesystemErrors == last.err \in FsErrors

\* The keys of the issues cached in the folder.
CachedKeys(folder_name) ==
    {folders[folder_name].issues[i].key :
        i \in 1..Len(folders[folder_name].issues)}

\* The path resolves to a file: /version.txt, the config.yaml of an existing
\* folder, or <key>.txt for the key of an issue cached in an existing folder.
ResolvesToFile(path) ==
    \/ path = <<"version.txt">>
    \/ /\ Len(path) = 2
       /\ path[1] \in DOMAIN folders
       /\ \/ path[2] = "config.yaml"
          \/ \E k \in CachedKeys(path[1]) : path[2] = k \o ".txt"

\* C22: open succeeds for every path that resolves to a file and fails with
\* ENOENT for every other path, /f/K.txt with no cached issue K included.
C22_OpenResolves ==
    [][\A path \in OpsPaths :
          Step("open", path) =>
              last'.err = IF ResolvesToFile(path) THEN "" ELSE "ENOENT"]_vars

\* The sizes and offsets of the reads examined: up to past the end of the
\* longest content (a config.yaml of five units).
ReadRange == 0..(MaxBuf + 3)

\* Elements offset+1 .. offset+size of the content, as far as it reaches.
Bytes(content, offset, size) ==
    LET rest == Len(content) - offset
        n == IF rest <= 0 THEN 0 ELSE IF size < rest THEN size ELSE rest
    IN  [i \in 1..n |-> content[offset + i]]

\* The content of a file as the current state defines it.
Content(path) ==
    IF path = <<"version.txt">> THEN _get_root_version_content
    ELSE IF path[2] = "config.yaml" THEN to_yaml(folders[path[1]])
    ELSE <<URaw(CHOOSE k \in CachedKeys(path[1]) : path[2] = k \o ".txt")>>

\* C23: read on a file that resolves returns exactly the bytes
\* [offset, offset+size) of the content computed from the current state (for
\* config.yaml the dump of the live configuration, never the write buffer),
\* empty when the offset is at or beyond the end; read on any other path
\* fails with ENOENT.
C23_ReadSlices ==
    \A path \in OpsPaths, size \in ReadRange, offset \in ReadRange :
        LET r == read(path, size, offset)
        IN  IF ResolvesToFile(path)
            THEN r.err = "" /\ r.data = Bytes(Content(path), offset, size)
            ELSE r.err = "ENOENT"

\* C23 witness: config.yaml has just been read while a write buffer that
\* differs from the dump of the live configuration is pending, and an issue
\* file resolves.
C23_Witness ==
    /\ last.op = "read" /\ last.err = ""
    /\ last.path = <<"f", "config.yaml">>
    /\ <<"f", "config.yaml">> \in DOMAIN file_handles
    /\ file_handles[<<"f", "config.yaml">>] # to_yaml(folders["f"])
    /\ ResolvesToFile(<<"f", "A.txt">>)

\* The full content read returns for the path: one read from offset 0 that
\* is long enough for any content.
ReadAll(path) == read(path, MaxBuf + 3, 0).data

\* C24: for every file that resolves, the st_size of getattr is the length
\* of the full content read returns in the same state; so a flush that has
\* changed the configuration or the issue list shows in the next getattr.
C24_SizeIsContentLength ==
    \A path \in OpsPaths :
        ResolvesToFile(path) =>
            /\ getattr(path).err = ""
            /\ getattr(path).size = len(ReadAll(path))

\* C24 witness: getattr has just answered for config.yaml after a flush gave
\* the folder a configuration of another length than the default one, and
\* an issue file that the flush listed resolves.
C24_Witness ==
    /\ last.op = "getattr" /\ last.err = ""
    /\ last.path = <<"f", "config.yaml">>
    /\ folders["f"].enabled /\ ~folders["f"].persistent
    /\ getattr(<<"f", "config.yaml">>).size # len(to_yaml(NewQueryFolder))
    /\ ResolvesToFile(<<"f", "A.txt">>)
    /\ getattr(<<"f", "A.txt">>).size > 0

\* C25: readdir(/) yields version.txt and exactly the names of the folders
\* in the folder map; readdir(/f) of an existing folder yields config.yaml
\* and then one <key>.txt per entry of the cached issue list, in cache
\* order, and nothing else.
C25_Listing ==
    /\ LET names == readdir(<<>>)
       IN  /\ Len(names) = 1 + Cardinality(DOMAIN folders)
           /\ names[1] = "version.txt"
           /\ {names[i] : i \in 2..Len(names)} = DOMAIN folders
    /\ \A f \in DOMAIN folders :
          LET names == readdir(<<f>>)
              issues == folders[f].issues
          IN  /\ Len(names) = 1 + Len(issues)
              /\ names[1] = "config.yaml"
              /\ \A i \in 1..Len(issues) :
                    names[i + 1] = issues[i].key \o ".txt"

\* C25 witness: readdir has just listed folder f, which caches two issues
\* with different keys, while g is a folder too.
C25_Witness ==
    /\ last.op = "readdir" /\ last.path = <<"f">>
    /\ DOMAIN folders = {"f", "g"}
    /\ Len(folders["f"].issues) = 2
    /\ folders["f"].issues[1].key # folders["f"].issues[2].key

\* C26: release removes the write buffer of its path and changes nothing
\* else; a path gets a buffer again only by a write or truncate on it; and a
\* flush of a path that has no buffer changes no folder and calls no
\* tracker.  So bytes written before a release take part in no later flush.
C26_ReleaseDiscards ==
    [][\A path \in OpsPaths :
          /\ Step("release", path) =>
                /\ last'.err = ""
                /\ file_handles' = Remove(file_handles, path)
                /\ folders' = folders
          /\ (path \notin DOMAIN file_handles
                /\ path \in DOMAIN file_handles') =>
                Step("write", path) \/ Step("truncate", path)
          /\ (Step("flush", path) /\ path \notin DOMAIN file_handles) =>
                /\ folders' = folders
                /\ last'.calls = <<>>
                /\ ~last'.refreshed]_vars

\* C26 witness: config.yaml has just been released, its buffer is gone, and
\* the live configuration is not the one of the document the editor wrote.
C26_Witness ==
    /\ last.op = "release" /\ last.path = <<"f", "config.yaml">>
    /\ <<"f", "config.yaml">> \notin DOMAIN file_handles
    /\ "f" \in DOMAIN folders
    /\ \A in \in OpsInputs :
          ConfigFields(folders["f"]) # Decode(in.data)

VersionTxt == <<"version.txt">>

\* version.txt answers, and its content shows what the probes found.
VersionReadable ==
    /\ getattr(VersionTxt).err = ""
    /\ open(VersionTxt) = ""
    /\ \A size \in ReadRange, offset \in ReadRange :
          read(VersionTxt, size, offset).err = ""
    /\ ReadAll(VersionTxt) # <<>>
    /\ \A t \in DOMAIN version_info :
          \E i \in 1..Len(ReadAll(VersionTxt)) :
              LET u == ReadAll(VersionTxt)[i]
              IN  /\ u.shape = t
                  /\ u.b = version_info[t].success
                  /\ u.q = version_info[t].text

BufferedFlush ==
    /\ last'.op = "flush"
    /\ Commits(last'.path)

\* C28 (as claimed): search and get_issue are called only inside a flush of
\* a config.yaml that was preceded by a write or truncate on that path; no
\* other activity, the load at mount time included, calls a tracker.
C28_CallsOnlyInFlush ==
    [][last'.calls # <<>> => BufferedFlush]_vars

\* C28 (amended): search and get_issue are called only inside such a flush
\* or inside the load at mount time, which refreshes every enabled folder
\* it loads; no other callback and no save calls a tracker.
C28_CallsOnlyInFlushOrLoad ==
    [][last'.calls # <<>> =>
          \/ BufferedFlush
          \/ /\ Step("mount", <<>>)
             /\ \E n \in DOMAIN folders' : folders'[n].enabled]_vars

\* C28 witness: a later process has mounted, loaded the enabled folder f
\* with the query an editor of an earlier session saved, and searched its
\* tracker.
C28_Witness ==
    /\ last.op = "mount" /\ last.calls # <<>>
    /\ last.calls[1].method = "search"
    /\ last.calls[1].arg = "q2"
    /\ "f" \in DOMAIN folders /\ folders["f"].enabled
    /\ \E t \in DOMAIN version_info : ~version_info[t].success

\* C29: when two editors of the same config.yaml have each done truncate(0),
\* write(its document), flush and release, in any interleaving, the folder's
\* configuration is that of the document of the editor who flushed last.
C29_LastFlushWins ==
    (\A e \in Editors : editors.pc[e] = "done") =>
        ConfigFields(folders["f"]) = Decode(editors.doc[editors.last_flush])

\* Every process has left _save_config.
AllSaved == \A m \in DOMAIN savers : savers[m].pc = "done"

\* Every process had a persistent folder at exit.
AllPersist ==
    \A m \in DOMAIN savers :
        DOMAIN persistent_folders(savers[m].folders) # {}

\* The store holds the section each process saved.
BothSections ==
    /\ config_file.kind = "ok"
    /\ \A m \in DOMAIN savers :
          /\ m \in DOMAIN config_file.mountpoints
          /\ config_file.mountpoints[m] =
                persistent_folders(savers[m].folders)

\* C30: two processes mounted at different mount paths, each with a
\* persistent folder, shut down at the same time.  When their saves ran one
\* after the other, the final store holds both sections.  (That an
\* interleaving of their reads and writes ends with a store that lacks one
\* mount's section is the witness below.)
C30_SequentialSavesKeepBoth ==
    (AllSaved /\ AllPersist /\ \A m \in DOMAIN savers : ~savers[m].overlapped)
        => BothSections

\* C30 witness: both saves are finished, they overlapped, and the final
\* store lacks the section of one mount path.
C30_Witness ==
    /\ AllSaved /\ AllPersist
    /\ \A m \in DOMAIN savers : savers[m].overlapped
    /\ config_file.kind = "ok"
    /\ \E m \in DOMAIN savers : m \notin DOMAIN config_file.mountpoints

\* The most recent step ran update_issues on folder f: a flush that
\* refreshed, or a mount that loaded f enabled.
Refreshed(f) ==
    /\ f \in DOMAIN folders
    /\ \/ Flushed(<<f, "config.yaml">>) /\ last.refreshed
       \/ last.op = "mount" /\ folders[f].enabled

\* C31: in every refresh, no call goes to a backend that is absent from the
\* registry, whatever the folder holds for it, and none goes to GitHub when
\* the folder's github repo is empty; the refresh completes without error
\* and every record the called backends returned is in the issue list.
C31_AbsentBackendNeverCalled ==
    Refreshed("f") =>
        LET folder == folders["f"]
            calls == last.calls
        IN  /\ last.err = ""
            /\ \A i \in 1..Len(calls) :
                  /\ calls[i].tracker \in clients
                  /\ calls[i].tracker = "github" =>
                        folder.github_config.repo # ""
            /\ \A i \in 1..Len(calls) :
                  calls[i].outcome = "ok" =>
                      SeqToSet(calls[i].keys)
                          \subseteq SeqToSet(KeySeq(folder.issues))

\* C31 witness: a flush refreshed a folder that holds a query and an id for
\* Jira, which has no client; only Bugzilla was called, and the issue list
\* holds what it returned.
C31_Witness ==
    /\ Flushed(RefreshPath) /\ last.refreshed
    /\ "jira" \notin clients
    /\ folders["f"].jira_config.q # ""
    /\ folders["f"].jira_config.ids # <<>>
    /\ Len(last.calls) = 1
    /\ last.calls[1].tracker = "bugzilla"
    /\ last.calls[1].outcome = "ok"
    /\ folders["f"].issues # <<>>

\* The buffer of path decodes, and to a configuration that equals the
\* folder's in every field flush compares.
DecodesToSame(path) ==
    LET r == from_yaml(FolderAt(path), file_handles[path])
    IN  /\ Utf8Ok(file_handles[path])
        /\ r.exc = ""
        /\ Diffed(r.folder) = Diffed(FolderAt(path))

\* C32: a flush whose buffer decodes to a configuration equal in every
\* diffed field to the current one calls no backend and leaves the issue
\* list of an enabled folder with a usable query or id unchanged; and a
\* flush that directly follows a flush of the same buffer changes neither
\* the configuration nor the issue list.
C32_FlushTwiceIsFlushOnce ==
    [][FlushStep(RefreshPath) =>
          /\ DecodesToSame(RefreshPath) =>
                /\ last'.calls = <<>>
                /\ ( /\ FolderAt(RefreshPath).enabled
                     /\ ~NoUsableQuery(FolderAt(RefreshPath)) )
                      => FolderAt(RefreshPath)'.issues
                            = FolderAt(RefreshPath).issues
          /\ Flushed(RefreshPath) =>
                FolderAt(RefreshPath)' = FolderAt(RefreshPath)]_vars

\* A non-empty valid document: bytes that are UTF-8 and load to a mapping
\* (with or without entries) whose tracker blocks, where present, are well
\* formed.
NonEmptyValidDoc(buf) ==
    /\ buf # <<>>
    /\ Utf8Ok(buf)
    /\ safe_load(buf) \in {"map", "emptymap"}
    /\ \A i \in 1..Len(buf) : buf[i].shape # "nonmap"

\* C33: a flush of a non-empty valid document replaces the whole
\* configuration: a backend whose block is missing, empty or not a list gets
\* the default configuration, a missing `enabled` or `persistent` is false,
\* a block without a list-valued `issues` gets an empty id list, and what
\* the document gives is stored; a flush of an empty buffer leaves every
\* configuration field unchanged.
C33_DecodeReplaces ==
    [][FlushStep(DecodePath) =>
          LET text == file_handles[DecodePath]
              old == FolderAt(DecodePath)
              new == FolderAt(DecodePath)'
              Given(k) == \E i \in 1..Len(text) : text[i].k = k
              Last(k) == text[CHOOSE i \in 1..Len(text) :
                             /\ text[i].k = k
                             /\ \A j \in (i + 1)..Len(text) : text[j].k # k]
          IN  /\ text = <<>> => ConfigFields(new) = ConfigFields(old)
              /\ NonEmptyValidDoc(text) =>
                    /\ new.enabled = (Given("enabled") /\ Last("enabled").b)
                    /\ new.persistent =
                          (Given("persistent") /\ Last("persistent").b)
                    /\ \A t \in TrackerSet :
                          IF Given(t) /\ Last(t).shape = "map"
                          THEN /\ ConfigOf(new, t).q = Last(t).q
                               /\ ConfigOf(new, t).repo = Last(t).repo
                               /\ ConfigOf(new, t).ids =
                                     IF Last(t).idsShape = "list"
                                     THEN Last(t).ids ELSE <<>>
                          ELSE ConfigOf(new, t) = DefaultConfig]_vars

\* The records the successful calls of a call log returned.
Returned(calls) ==
    UNION { { [key |-> calls[i].keys[j], src |-> calls[i].tracker] :
                j \in 1..Len(calls[i].keys) } :
            i \in {n \in 1..Len(calls) : calls[n].outcome = "ok"} }

\* C34: after every refresh the issue list holds only records that the
\* backend calls of that refresh returned; when every call of the refresh
\* failed the list is empty, whatever it held before.
C34_RefreshRecomputes ==
    Refreshed("f") =>
        /\ SeqToSet(folders["f"].issues) \subseteq Returned(last.calls)
        /\ (\A i \in 1..Len(last.calls) : last.calls[i].outcome # "ok")
              => folders["f"].issues = <<>>

\* C34 witness: a flush ran a refresh in which a search raised and a
\* get_issue found nothing, and the issue list is empty.
C34_Witness ==
    /\ Flushed(RefreshPath) /\ last.refreshed
    /\ Len(last.calls) = 2
    /\ last.calls[1].outcome = "raise"
    /\ last.calls[2].outcome = "none"
    /\ folders["f"].issues = <<>>

\* The buffer a write or truncate of path starts from: the one pending, or
\* an empty one.
Pending(path) ==
    IF path \in DOMAIN file_handles THEN file_handles[path] ELSE <<>>

\* C35: write(data, offset) makes the bytes from offset to offset+len(data)
\* equal data, extends the buffer to at least offset+len(data) and leaves
\* the other bytes it had unchanged; truncate(n) makes the length n and keeps
\* the first min(n, old length) bytes; every byte never written is zero; and
\* the first write or truncate after mount or release starts from an empty
\* buffer, not from the content of the file.
C35_BufferContents ==
    [][LET old == Pending(BufferPath)
           new == file_handles'[BufferPath]
       IN  /\ \A in \in BufferInputs :
                 (write(BufferPath, in.data, in.offset) /\ last'.err = "") =>
                    LET n == in.offset + Len(in.data)
                    IN  /\ Len(new) = IF n > Len(old) THEN n ELSE Len(old)
                        /\ \A i \in 1..Len(new) :
                              new[i] =
                                 IF in.offset < i /\ i <= n
                                 THEN in.data[i - in.offset]
                                 ELSE IF i <= Len(old) THEN old[i] ELSE NUL
           /\ \A length \in 0..MaxBuf :
                 (truncate(BufferPath, length) /\ last'.err = "") =>
                    /\ Len(new) = length
                    /\ \A i \in 1..length :
                          new[i] = IF i <= Len(old) THEN old[i] ELSE NUL]_vars

\* C35 witness: a write at offset 2 has left the buffer of an enabled
\* folder's config.yaml as zero, zero, data: it holds nothing of the file's
\* content, and the bytes never written are zero.
C35_Witness ==
    /\ last.op = "write" /\ last.err = ""
    /\ folders["f"].enabled
    /\ file_handles[BufferPath] = <<NUL, NUL, En(TRUE)>>

\* C36: a flush with nothing to commit (the path is no config.yaml, or its
\* folder does not exist, or it has no write buffer) returns without error,
\* calls no backend, creates no folder and changes no folder's configuration
\* or issue list.
C36_FlushWithoutCommit ==
    [][\A path \in OpsFilePaths :
          (Step("flush", path) /\ ~Commits(path)) =>
              /\ last'.err = ""
              /\ last'.calls = <<>>
              /\ ~last'.refreshed
              /\ DOMAIN folders' = DOMAIN folders
              /\ folders' = folders]_vars

\* C36 witness: config.yaml of a folder that was removed while bytes were
\* buffered for it has just been flushed; the folder is still gone and
\* the bytes are still buffered.
C36_Witness ==
    /\ last.op = "flush" /\ last.path = <<"f", "config.yaml">>
    /\ last.err = ""
    /\ "f" \notin DOMAIN folders
    /\ <<"f", "config.yaml">> \in DOMAIN file_handles

\* C37: rmdir leaves no write buffer behind for the config.yaml of the
\* folder it removes, and a flush that directly follows the mkdir of a
\* folder (no byte was written or truncated since) leaves the folder with
\* its default configuration.
C37_RmdirDropsBuffer ==
    [][\A name \in {"f", "g"} :
          /\ (Step("rmdir", <<name>>) /\ last'.err = "") =>
                <<name, "config.yaml">> \notin DOMAIN file_handles'
          /\ ( /\ last.op = "mkdir" /\ last.path = <<name>> /\ last.err = ""
               /\ Step("flush", <<name, "config.yaml">>) ) =>
                ConfigFields(folders'[name]) =
                    ConfigFields(NewQueryFolder)]_vars

\* C38: in every reachable state the names readdir(/) yields are pairwise
\* distinct and no folder is named version.txt, so /version.txt is never at
\* once the diagnostic file and a folder.
C38_RootNamesDistinct ==
    LET names == readdir(<<>>)
    IN  /\ \A i, j \in 1..Len(names) : i # j => names[i] # names[j]
        /\ "version.txt" \notin DOMAIN folders

\* The file names a lookup can ask for: config.yaml, the issue file of every
\* key, and a name of no file.
LookupNames == {"config.yaml", "x"} \cup {k \o ".txt" : k \in Stems}

====
